---- MODULE Spec2Model ----
(***************************************************************************)
(* HchDB: the MySQL protocol session (hchdb/protocol/mysql.py), its packet *)
(* builder (hchdb/protocol/packet.py) and the connection manager           *)
(* (hchdb/connection/manager.py), as one state machine.                    *)
(*                                                                         *)
(* Every asyncio task (one session task per admitted socket, the reaper    *)
(* task, the accept callbacks) is a process; an action is the code a task  *)
(* runs between two suspension points (await of a read, of a write+drain,  *)
(* of wait_closed, of sleep).                                              *)
(***************************************************************************)
EXTENDS Integers, Sequences, FiniteSets, TLC

\* ------------------------------------------------------------------ bounds
MaxSockets == 3          \* sockets the listeners accept in a run
MaxCmds == 1             \* command packets one client sends on one socket
MaxTime == 2             \* largest reading of time.time()
SessionCmds == 2         \* command packets the client sends in SpecSession
TurnoverSockets == 3     \* sockets accepted in a run of FairTurnover
PairSockets == 2         \* sockets accepted in a run of FairShutdown
PingCmds == 3            \* command packets the client sends in SpecPing

\* ------------------------------------------------------------ configuration
MaxConnections == 2      \* connection.pool.max_connections of Spec
IdleTimeout == 1         \* connection.pool.idle_timeout, in clock units

\* authentication.users : user name -> configured password
UsersConfig == [root |-> "", app |-> "secret"]
ConfiguredUsers == DOMAIN UsersConfig

\* The challenge response a client holding password pw computes; the code has
\* no such function (the check is a TODO), the value only names "matching".
ExpectedResponse(pw) == IF pw = "" THEN "" ELSE "scramble(" \o pw \o ")"

\* --------------------------------------------------------------- constants
COM_QUIT == 1
COM_INIT_DB == 2
COM_QUERY == 3
COM_FIELD_LIST == 4
COM_PING == 14
\* command bytes the dispatcher has no branch for (0x99, COM_STATISTICS)
UnknownCommands == {153, 9}

VARIABLES
    connections,            \* ConnectionManager._connections : id -> ConnectionInfo
    active_handlers,        \* ConnectionManager._active_handlers : id -> handler (socket)
    next_connection_id,     \* ConnectionManager._next_connection_id
    max_connections,        \* ConnectionManager._max_connections
    total_connections,      \* ConnectionManager.total_connections
    rejected_connections,   \* ConnectionManager.rejected_connections
    reaper,                 \* the _cleanup_loop task: position and locals
    clock,                  \* the last value time.time() returned
    accepted,               \* sockets the listeners have handed over so far
    limits,                 \* the run's bounds: sockets and commands per socket
    stop_task,              \* the caller of ConnectionManager.stop: its position
    sess,                   \* socket -> its MySQLProtocolHandler, writer and task
    codec,                  \* packet.py objects used on their own: a PacketBuilder,
                            \* a Packet and its bytes, a parser's input and result
    app,                    \* main.py: the command line, HchDBApplication, the configs
    server,                 \* an HchDBServer used on its own: its listeners and caller
    pool                    \* a ConnectionPool used on its own: its connections and tasks

vars == <<connections, active_handlers, next_connection_id, max_connections,
          total_connections, rejected_connections, reaper, clock, accepted,
          limits, stop_task, sess, codec, app, server, pool>>

\* the objects no manager or session step touches
unitVars == <<codec, app, server, pool>>
\* the manager, its sessions and its tasks
serverVars == <<connections, active_handlers, next_connection_id, max_connections,
                total_connections, rejected_connections, reaper, clock, accepted,
                limits, stop_task, sess>>

mgrVars == <<connections, active_handlers, next_connection_id, max_connections,
             total_connections, rejected_connections>>

Sockets == 1..limits.sockets

\* ----------------------------------------------------------------- packets
Pkt(kind, data, msg) == [kind |-> kind, data |-> data, msg |-> msg]

\* PacketBuilder.build_handshake: protocol 10, the connection id
HandshakePkt(cid) == Pkt("HANDSHAKE", <<10, cid>>, <<"8.0.0-hchdb", "mysql_native_password">>)
\* PacketBuilder.build_ok(affected_rows, status_flags = 2)
OkPkt(affected) == Pkt("OK", <<affected, 2>>, <<>>)
\* PacketBuilder.build_eof
EofPkt == Pkt("EOF", <<0, 2>>, <<>>)
\* PacketBuilder.build_error via _send_error (sql_state "HY000")
ErrPkt(code, msg) == Pkt("ERR", <<code>>, <<"HY000">> \o msg)
\* Packet(b'\\x01', ...): the literal's four bytes \ x 0 1
CountPkt(lastByte) == Pkt("COUNT", <<92, 120, 48, lastByte>>, <<>>)
ColDefPkt(name) == Pkt("COLDEF", <<>>, <<name>>)
\* a row packet with n length-prefixed values
RowPkt(n) == Pkt("ROW", <<n>>, <<>>)

\* PacketBuilder.next_sequence_id: the id claimed and the counter after it
NextSeqMod == 256
\* a counter that is advanced and never wrapped
next_sequence_id_unwrapped(seq) == [id |-> seq, seq |-> seq + 1]
next_sequence_id(seq) == [id |-> seq, seq |-> (seq + 1) % NextSeqMod]

\* --------------------------------------------------------- inbound framing
\* the three little-endian length bytes of a header announcing n payload bytes
LE3(n) == <<n % 256, (n \div 256) % 256, (n \div 65536) % 256>>
\* _read_packet: length_bytes = header_data[:3] + b'\\x00', whose literal is the
\* four bytes \ x 0 0; the length is that byte string read little-endian
ReadLengthBytes(hdr3) == hdr3 \o <<92, 120, 48, 48>>
\* a little-endian byte string, as a number, is 0 / is below k (k <= 256)
LenIsZero(bytes) == \A i \in 1..Len(bytes) : bytes[i] = 0
LenBelow(bytes, k) == bytes[1] < k /\ \A i \in 2..Len(bytes) : bytes[i] = 0
\* payload lengths a client announces in the header
HeaderLens == {0, 1, 5}

\* ------------------------------------------------------------ query shapes
\* a statement is its words; the responder upper-cases it before it looks
Upper(w) == CASE w = "select" -> "SELECT" [] w = "show" -> "SHOW"
              [] w = "databases" -> "DATABASES" [] OTHER -> w
UpperAll(q) == [i \in 1..Len(q) |-> Upper(q[i])]
StartsWith(q, w) == Len(q) > 0 /\ q[1] = w
Contains(q, w) == \E i \in 1..Len(q) : q[i] = w

Queries == { <<"SELECT", "1">>, <<"select", "1">>, <<"INSERT">>, <<"UPDATE">>,
             <<"SHOW", "DATABASES">>, <<"show", "databases">>, <<"SHOW", "TABLES">>,
             <<"SHOW", "VARIABLES">>, <<"SHOW", "STATUS">>, <<"SET">> }
Databases == {"hchdb", "test"}

\* _send_select_result: the packets it builds, in order
SelectResult ==
    << CountPkt(49), ColDefPkt("message"), EofPkt, RowPkt(1), EofPkt >>
\* a result set without the EOF that ends the column definitions
DatabasesResultNoColumnEof ==
    << CountPkt(49), ColDefPkt("SCHEMA_NAME"),
       RowPkt(1), RowPkt(1), RowPkt(1), EofPkt >>
\* _send_databases_result
DatabasesResult ==
    << CountPkt(49), ColDefPkt("SCHEMA_NAME"), EofPkt,
       RowPkt(1), RowPkt(1), RowPkt(1), EofPkt >>
\* _send_tables_result
TablesResult ==
    << CountPkt(49), ColDefPkt("Tables_in"), EofPkt,
       RowPkt(1), RowPkt(1), RowPkt(1), EofPkt >>
\* _send_variables_result
VariablesResult ==
    << CountPkt(50), ColDefPkt("Variable_name"), ColDefPkt("Value"), EofPkt,
       RowPkt(2), RowPkt(2), RowPkt(2), EofPkt >>

\* _send_show_result(query)
send_show_result(query) ==
    LET query_upper == UpperAll(query) IN
    IF Contains(query_upper, "DATABASES") THEN DatabasesResult
    ELSE IF Contains(query_upper, "TABLES") THEN TablesResult
    ELSE IF Contains(query_upper, "VERSION") \/ Contains(query_upper, "VARIABLES")
         THEN VariablesResult
    ELSE << EofPkt >>

\* _send_simple_result(query)
send_simple_result(query) ==
    LET query_upper == UpperAll(query) IN
    IF StartsWith(query_upper, "SELECT") THEN SelectResult
    ELSE IF StartsWith(query_upper, "INSERT") \/ StartsWith(query_upper, "UPDATE")
            \/ StartsWith(query_upper, "DELETE") THEN << OkPkt(1) >>
    ELSE IF StartsWith(query_upper, "SHOW") THEN send_show_result(query)
    ELSE << OkPkt(0) >>

\* ----------------------------------------------------------------- session
\* The payload of a handshake response: the capability flags of its first four
\* bytes, the number of bytes it has of the 28 that follow (max packet size,
\* charset, reserved), and the rest as chunks: "NUL" is the byte 0x00, "0xFF"
\* the byte 0xFF, "LEN" a length byte announcing the chunk after it, any other
\* string a run of bytes that are text and not 0x00.
HsPayload(capabilities, fixed, rest) ==
    [capabilities |-> capabilities, fixed |-> fixed, rest |-> rest]
NoPayload == HsPayload({}, 0, <<>>)

NoCmd == [first |-> -1, body |-> <<>>, utf8 |-> TRUE]
NoAuth == [parsed |-> FALSE, username |-> "", auth_data |-> "", database |-> ""]

\* a socket the listeners have not accepted yet
NoSession ==
    [ pc |-> "none", cid |-> 0, seq |-> 0, todo |-> <<>>, ctx |-> "none",
      authenticated |-> FALSE, username |-> "", database |-> "",
      auth_info |-> NoAuth, auth_result |-> "none",
      resp |-> NoPayload, ncmd |-> 0, hdr |-> -1, heard |-> -1, cmd |-> NoCmd, quit |-> FALSE, out |-> <<>>,
      broken |-> FALSE, closing |-> FALSE, eof |-> FALSE, late |-> 0 ]

\* a handler whose handshake carries build_handshake's default connection id
NewSessionDefaultId(cid) ==
    [ NoSession EXCEPT !.pc = "send", !.cid = cid, !.ctx = "hs",
                       !.todo = << HandshakePkt(1) >> ]
\* MySQLProtocolHandler.__init__ and the start of handle_connection: the task
\* is created about to build and write the handshake
NewSession(cid) ==
    [ NoSession EXCEPT !.pc = "send", !.cid = cid, !.ctx = "hs",
                       !.todo = << HandshakePkt(cid) >> ]

\* a refusal that greets the socket before it closes it
RejectedSocketGreeted ==
    [ NoSession EXCEPT !.pc = "rejected", !.closing = TRUE,
                       !.out = << [kind |-> "HANDSHAKE", data |-> <<10, 0>>,
                                   msg |-> <<"8.0.0-hchdb", "mysql_native_password">>,
                                   seq |-> 0] >> ]
\* a socket handle_new_connection refused: closed, no handler
RejectedSocket == [ NoSession EXCEPT !.pc = "rejected", !.closing = TRUE ]

InternalError == ErrPkt(1105, <<"Internal error">>)

\* a query failure answered like any other exception, with ERR 1105
RaiseAllInternal(r, ctx) ==
    CASE ctx \in {"query", "queryexc", "cmd"} ->
            [r EXCEPT !.ctx = "cmdexc", !.pc = "send", !.todo = << InternalError >>]
      [] ctx \in {"hs", "auth", "autherr", "cmdexc"} ->
            [r EXCEPT !.ctx = "outer", !.pc = "send", !.todo = << InternalError >>]
      [] OTHER -> [r EXCEPT !.ctx = "finally", !.pc = "close", !.todo = <<>>]

\* An exception raised at nesting level ctx of handle_connection: the except
\* clause that catches it and the ERR packet that clause sends. "close" means
\* no clause of the handler is left: the finally block runs.
Raise(r, ctx) ==
    CASE ctx = "query" ->
            [r EXCEPT !.ctx = "queryexc", !.pc = "send",
                      !.todo = << ErrPkt(1064, <<"Query error">>) >>]
      [] ctx \in {"queryexc", "cmd"} ->
            [r EXCEPT !.ctx = "cmdexc", !.pc = "send", !.todo = << InternalError >>]
      [] ctx \in {"hs", "auth", "autherr", "cmdexc"} ->
            [r EXCEPT !.ctx = "outer", !.pc = "send", !.todo = << InternalError >>]
      [] OTHER -> [r EXCEPT !.ctx = "finally", !.pc = "close", !.todo = <<>>]

\* The code after the last write of nesting level ctx succeeded
Completed(r, ctx) ==
    CASE ctx = "hs" -> [r EXCEPT !.pc = "auth_read", !.ctx = "auth"]
      [] ctx = "auth" -> [r EXCEPT !.pc = "cmd_read", !.ctx = "cmd", !.authenticated = TRUE]
      [] ctx = "autherr" -> Raise(r, "autherr")
      [] ctx \in {"query", "queryexc", "cmd", "cmdexc"} ->
            [r EXCEPT !.pc = "cmd_read", !.ctx = "cmd"]
      [] OTHER -> [r EXCEPT !.ctx = "finally", !.pc = "close"]

\* ------------------------------------------------------------ client input
\* the chunks of a null-terminated string that starts at chunk i: the index of
\* its terminator, or of the end of the payload
RECURSIVE NtsEnd(_, _)
NtsEnd(rest, i) ==
    IF i > Len(rest) \/ rest[i] = "NUL" THEN i ELSE NtsEnd(rest, i + 1)
\* bytes.decode('utf-8') of a run of chunks: the text, and whether it decodes
RECURSIVE Join(_)
Join(chunks) == IF chunks = <<>> THEN "" ELSE Head(chunks) \o Join(Tail(chunks))
Decodes(chunks) == \A k \in 1..Len(chunks) : chunks[k] # "0xFF"
\* while True: byte = stream.read(1); if not byte or byte == b'\x00': break
read_nts(rest, i) ==
    LET j == NtsEnd(rest, i) IN
    [chunks |-> SubSeq(rest, i, j - 1), next |-> IF j <= Len(rest) THEN j + 1 ELSE j]

\* PacketParser.parse_handshake_response(packet): the dict it returns (parsed)
\* or the exception it raises (not parsed); len is the payload length
parse_handshake_response(payload, len) ==
    LET rest == payload.rest
        user == read_nts(rest, 1)
        i == user.next
        lenenc == "LENENC" \in payload.capabilities
        \* _decode_length_encoded_int and stream.read(auth_len)
        tag == IF i > Len(rest) THEN "NUL" ELSE rest[i]
        auth == IF lenenc
                THEN IF i > Len(rest) THEN [chunks |-> <<>>, next |-> i]
                     ELSE IF tag = "LEN"
                     THEN [chunks |-> SubSeq(rest, i + 1, IF i + 1 <= Len(rest) THEN i + 1 ELSE i),
                           next |-> IF i + 1 <= Len(rest) THEN i + 2 ELSE i + 1]
                     ELSE [chunks |-> <<>>, next |-> i + 1]
                ELSE read_nts(rest, i)
        db == IF "WITH_DB" \in payload.capabilities THEN read_nts(rest, auth.next)
              ELSE [chunks |-> <<>>, next |-> auth.next]
        plugin == IF "PLUGIN_AUTH" \in payload.capabilities THEN read_nts(rest, db.next)
                  ELSE [chunks |-> <<>>, next |-> db.next]
    IN IF \/ LenBelow(len, 4)
          \/ payload.fixed < 5
          \/ ~Decodes(user.chunks)
          \/ lenenc /\ tag \notin {"NUL", "LEN"}
          \/ ~Decodes(db.chunks)
          \/ ~Decodes(plugin.chunks)
       THEN NoAuth
       ELSE [parsed |-> TRUE, username |-> Join(user.chunks),
             auth_data |-> Join(auth.chunks), database |-> Join(db.chunks)]

\* handshake responses a client sends, each whole: root with no auth data and
\* a database, app with its challenge response, app with no auth data and a
\* database, a user that is not configured
RootResponse ==
    HsPayload({"LENENC", "WITH_DB", "PLUGIN_AUTH"}, 28,
              <<"root", "NUL", "NUL", "hchdb", "NUL", "mysql_native_password", "NUL">>)
WholeResponses ==
    { RootResponse,
      HsPayload({"LENENC", "PLUGIN_AUTH"}, 28,
                <<"app", "NUL", "LEN", ExpectedResponse("secret"),
                  "mysql_native_password", "NUL">>),
      HsPayload({"WITH_DB"}, 28, <<"app", "NUL", "NUL", "hchdb", "NUL">>),
      HsPayload({}, 28, <<"nobody", "NUL", "NUL">>) }
\* payloads the parser raises on: one that ends in its fixed part, a user name
\* that is not UTF-8, a first byte of the auth data length that is no tag
MalformedResponses ==
    { HsPayload({"LENENC"}, 4, <<>>),
      HsPayload({}, 28, <<"0xFF", "NUL", "NUL">>),
      HsPayload({"LENENC"}, 28, <<"root", "NUL", "0xFF">>) }
HandshakeResponses == WholeResponses \cup MalformedResponses
\* payloads that end inside a null-terminated field: the user name, the auth
\* data, the database, the plugin name
TruncatedResponses ==
    { HsPayload({"LENENC", "WITH_DB", "PLUGIN_AUTH"}, 28, <<"root">>),
      HsPayload({"LENENC", "WITH_DB", "PLUGIN_AUTH"}, 28, <<"roo">>),
      HsPayload({"WITH_DB"}, 28, <<"app", "NUL", "scramble(sec">>),
      HsPayload({"LENENC", "WITH_DB", "PLUGIN_AUTH"}, 28, <<"root", "NUL", "NUL", "hch">>),
      HsPayload({"LENENC", "WITH_DB", "PLUGIN_AUTH"}, 28,
                <<"root", "NUL", "NUL", "hchdb", "NUL", "mysql_native">>) }
\* the payload ends inside a null-terminated field
EndsInsideField(payload) ==
    LET rest == payload.rest
        n == Len(rest)
    IN /\ n > 0 /\ rest[n] \notin {"NUL", "LEN"}
       /\ ~(n > 1 /\ rest[n - 1] = "LEN" /\ "LENENC" \in payload.capabilities)

Cmd(first, body, utf8) == [first |-> first, body |-> body, utf8 |-> utf8]
\* command payloads a client sends: first byte, body, whether the body is UTF-8
CommandPackets ==
    { Cmd(b, <<>>, TRUE) : b \in {COM_QUIT, COM_PING, COM_FIELD_LIST} \cup UnknownCommands }
    \cup { Cmd(COM_QUERY, q, TRUE) : q \in Queries }
    \cup { Cmd(COM_QUERY, <<>>, FALSE) }
    \cup { Cmd(COM_INIT_DB, <<d>>, TRUE) : d \in Databases }
    \cup { Cmd(COM_INIT_DB, <<>>, FALSE) }
\* the payload lengths a client announces ahead of these bytes: the length of
\* the bytes, or less (0: an empty packet, 1: a command byte and no body), the
\* bytes then being what the client sends next
AnnouncedFor(cmd) ==
    IF cmd.first = COM_PING THEN {0, 1}
    ELSE IF cmd.first = COM_INIT_DB THEN {1, 5}
    ELSE IF cmd.first = COM_QUERY THEN {5}
    ELSE {1}
\* the commands and handshake responses of the many-connection runs
LightCommands == { Cmd(COM_QUIT, <<>>, TRUE) }
LightResponses == { RootResponse }
LightHeaders == {1}

\* ---------------------------------------------------------- authentication
\* _authenticate_user(auth_info)
authenticate_user(auth_info) ==
    IF auth_info.username \notin ConfiguredUsers THEN FALSE
    ELSE IF UsersConfig[auth_info.username] = "" THEN TRUE
    ELSE TRUE

\* an authentication that answers a refused user with ERR 1045 and goes on
handle_authentication_no_raise(r, auth_info) ==
    LET r1 == [r EXCEPT !.username = auth_info.username,
                        !.database = auth_info.database,
                        !.auth_info = auth_info, !.out = <<>>]
    IN IF ~authenticate_user(auth_info)
       THEN [r1 EXCEPT !.auth_result = "fail", !.ctx = "auth", !.pc = "send",
                       !.todo = << ErrPkt(1045, <<"Access denied for user", auth_info.username>>) >>]
       ELSE [r1 EXCEPT !.auth_result = "pass", !.ctx = "auth", !.pc = "send",
                       !.todo = << OkPkt(0) >>]
\* _handle_authentication after the packet is read and parsed
handle_authentication(r, auth_info) ==
    LET r1 == [r EXCEPT !.username = auth_info.username,
                        !.database = auth_info.database,
                        !.auth_info = auth_info, !.out = <<>>]
    IN IF ~authenticate_user(auth_info)
       THEN [r1 EXCEPT !.auth_result = "fail", !.ctx = "autherr", !.pc = "send",
                       !.todo = << ErrPkt(1045, <<"Access denied for user", auth_info.username>>) >>]
       ELSE [r1 EXCEPT !.auth_result = "pass", !.ctx = "auth", !.pc = "send",
                       !.todo = << OkPkt(0) >>]

\* ---------------------------------------------------------------- commands
Reply(r, ctx, pkts) == [r EXCEPT !.pc = "send", !.ctx = ctx, !.todo = pkts]

\* _handle_query(packet), no query_handler installed
handle_query(r, cmd) ==
    IF ~cmd.utf8 THEN Raise(r, "query")
    ELSE Reply(r, "query", send_simple_result(cmd.body))

\* _handle_init_db(packet)
handle_init_db(r, cmd, len) ==
    IF LenBelow(len, 2) THEN Reply(r, "cmd", << ErrPkt(1064, <<"Invalid USE command">>) >>)
    ELSE IF ~cmd.utf8 THEN Raise(r, "cmd")
    ELSE Reply([r EXCEPT !.database = cmd.body[1]], "cmd", << OkPkt(0) >>)

\* a PING answered with two OK packets
handle_ping_twice(r) == Reply(r, "cmd", << OkPkt(0), OkPkt(0) >>)
\* _handle_ping
handle_ping(r) == Reply(r, "cmd", << OkPkt(0) >>)

\* _process_command(packet): r is the session with the packet taken in, len the
\* payload length _read_packet computed
process_command(r, cmd, len) ==
    IF LenIsZero(len) THEN Reply(r, "cmd", << ErrPkt(1064, <<"Empty command packet">>) >>)
    ELSE IF cmd.first = COM_QUIT THEN [r EXCEPT !.quit = TRUE, !.pc = "cmd_read", !.ctx = "cmd"]
    ELSE IF cmd.first = COM_QUERY THEN handle_query(r, cmd)
    ELSE IF cmd.first = COM_PING THEN handle_ping(r)
    ELSE IF cmd.first = COM_INIT_DB THEN handle_init_db(r, cmd, len)
    ELSE IF cmd.first = COM_FIELD_LIST THEN Reply(r, "cmd", << EofPkt >>)
    ELSE Reply(r, "cmd", << Pkt("ERR", <<1047, cmd.first>>, <<"HY000", "Unknown command">>) >>)

\* ----------------------------------------------------------------- manager
Remove(f, k) == [x \in DOMAIN f \ {k} |-> f[x]]
Put(f, k, v) == [x \in DOMAIN f \cup {k} |-> IF x = k THEN v ELSE f[x]]

\* ConnectionInfo at admission
ConnectionInfo(cid, now) ==
    [connection_id |-> cid, username |-> "", database |-> "", last_activity |-> now]

\* a cap check that lets one connection too many in
AtCapacityOffByOne(n, max) == n > max
\* an allocation that hands the id out and leaves the counter where it was
claim_connection_id_again(next) == [id |-> next, next |-> next]
\* handle_new_connection: connection_id = _next_connection_id, then += 1
claim_connection_id(next) == [id |-> next, next |-> next + 1]

\* handle_new_connection: the cap check
AtCapacity(n, max) == n >= max

\* a cleanup that closes and forgets the handler but keeps the table entry
cleanup_connection_keeps_entry(cid, conns, hands, S) ==
    IF cid \in DOMAIN hands
    THEN IF ~S[hands[cid]].closing
         THEN [conns |-> conns, hands |-> hands,
               sess |-> [S EXCEPT ![hands[cid]].closing = TRUE], waits |-> TRUE]
         ELSE [conns |-> conns, hands |-> Remove(hands, cid), sess |-> S, waits |-> FALSE]
    ELSE [conns |-> conns, hands |-> hands, sess |-> S, waits |-> FALSE]

\* _cleanup_connection(cid) up to its first suspension point, on the maps and
\* the writers: the entry of connections is deleted; a handler whose writer is
\* not closing is closed and the caller suspends in wait_closed ("waits");
\* a handler whose writer is closing is deleted at once.
cleanup_connection(cid, conns, hands, S) ==
    LET conns1 == IF cid \in DOMAIN conns THEN Remove(conns, cid) ELSE conns IN
    IF cid \in DOMAIN hands
    THEN IF ~S[hands[cid]].closing
         THEN [conns |-> conns1, hands |-> hands,
               sess |-> [S EXCEPT ![hands[cid]].closing = TRUE], waits |-> TRUE]
         ELSE [conns |-> conns1, hands |-> Remove(hands, cid), sess |-> S, waits |-> FALSE]
    ELSE [conns |-> conns1, hands |-> hands, sess |-> S, waits |-> FALSE]

\* the for loop of _cleanup_idle_connections over ids, run to the first
\* suspension point (cur is the id whose close is awaited, 0 when the loop ended)
RECURSIVE cleanup_idle_loop(_, _, _, _)
cleanup_idle_loop(ids, conns, hands, S) ==
    IF ids = <<>>
    THEN [conns |-> conns, hands |-> hands, sess |-> S, cur |-> 0, rest |-> <<>>]
    ELSE LET c == cleanup_connection(Head(ids), conns, hands, S) IN
         IF c.waits
         THEN [conns |-> c.conns, hands |-> c.hands, sess |-> c.sess,
               cur |-> Head(ids), rest |-> Tail(ids)]
         ELSE cleanup_idle_loop(Tail(ids), c.conns, c.hands, c.sess)

\* the ids of a set in increasing order (the insertion order of _connections)
RECURSIVE InOrder(_)
InOrder(ids) ==
    IF ids = {} THEN <<>>
    ELSE LET m == CHOOSE x \in ids : \A y \in ids : x <= y
         IN <<m>> \o InOrder(ids \ {m})

\* _cleanup_idle_connections: the ids collected at time now
IdleConnections(conns, now) ==
    InOrder({ c \in DOMAIN conns : now - conns[c].last_activity > IdleTimeout })

\* what is left of a session whose task has ended
DoneSession(r) == [NoSession EXCEPT !.pc = "done", !.cid = r.cid, !.closing = r.closing]

\* no packet.py object is used on its own, main has not run
NoCodec == [pc |-> "none"]
NoApp == [pc |-> "none"]
\* no HchDBServer and no ConnectionPool is used on its own
NoServer == [pc |-> "none"]
NoPool == [pc |-> "none"]

\* -------------------------------------------------------------------- Init
\* after ConnectionManager() and start(): empty maps, the reaper asleep
InitServer(max, lim) ==
    /\ connections = <<>>
    /\ active_handlers = <<>>
    /\ next_connection_id = 1
    /\ max_connections = max
    /\ total_connections = 0
    /\ rejected_connections = 0
    /\ reaper = [pc |-> "sleep", cur |-> 0, rest |-> <<>>, raised |-> FALSE]
    /\ clock = 0
    /\ accepted = 0
    /\ limits = lim
    /\ stop_task = "running"
    /\ sess = [s \in 1..lim.sockets |-> NoSession]

InitWith(max, lim) == InitServer(max, lim) /\ codec = NoCodec /\ app = NoApp /\ server = NoServer /\ pool = NoPool

Init ==
    InitWith(MaxConnections,
             [sockets |-> MaxSockets, cmds |-> MaxCmds, headers |-> LightHeaders,
              commands |-> LightCommands, responses |-> LightResponses])

\* one client, every command shape
InitSession ==
    InitWith(1, [sockets |-> 1, cmds |-> SessionCmds, headers |-> HeaderLens,
                 commands |-> CommandPackets, responses |-> HandshakeResponses])

\* max_connections = 1 and clients arriving one after the other
InitTurnover ==
    InitWith(1, [sockets |-> TurnoverSockets, cmds |-> MaxCmds,
                 headers |-> LightHeaders, commands |-> LightCommands, responses |-> LightResponses])

\* one client that authenticates as root and sends nothing but PING
InitPing ==
    InitWith(1, [sockets |-> 1, cmds |-> PingCmds, headers |-> LightHeaders,
                 commands |-> { Cmd(COM_PING, <<>>, TRUE) },
                 responses |-> LightResponses])

\* one client whose handshake response is whole, malformed or cut short
InitAuth ==
    InitWith(1, [sockets |-> 1, cmds |-> MaxCmds, headers |-> LightHeaders,
                 commands |-> LightCommands,
                 responses |-> HandshakeResponses \cup TruncatedResponses])

\* room for every client that comes
InitPair ==
    InitWith(MaxConnections,
             [sockets |-> PairSockets, cmds |-> MaxCmds, headers |-> LightHeaders,
              commands |-> LightCommands, responses |-> LightResponses])

\* ----------------------------------------------------------------- actions
\* a handle_new_connection that counts the connection before the cap check
AcceptCountsRefused ==
    /\ stop_task = "running"
    /\ accepted < limits.sockets
    /\ accepted' = accepted + 1
    /\ total_connections' = total_connections + 1
    /\ IF AtCapacity(Cardinality(DOMAIN connections), max_connections)
       THEN /\ rejected_connections' = rejected_connections + 1
            /\ sess' = [sess EXCEPT ![accepted + 1] = RejectedSocket]
            /\ UNCHANGED <<connections, active_handlers, next_connection_id, clock>>
       ELSE \E now \in clock..MaxTime :
            LET claimed == claim_connection_id(next_connection_id)
                connection_id == claimed.id IN
            /\ next_connection_id' = claimed.next
            /\ connections' = Put(connections, connection_id,
                                  ConnectionInfo(connection_id, now))
            /\ active_handlers' = Put(active_handlers, connection_id, accepted + 1)
            /\ sess' = [sess EXCEPT ![accepted + 1] = NewSession(connection_id)]
            /\ clock' = now
            /\ UNCHANGED rejected_connections
    /\ UNCHANGED <<max_connections, reaper, limits, stop_task>>
    /\ UNCHANGED unitVars

\* handle_new_connection(reader, writer) for the next socket
Accept ==
    /\ stop_task = "running"
    /\ accepted < limits.sockets
    /\ accepted' = accepted + 1
    /\ IF AtCapacity(Cardinality(DOMAIN connections), max_connections)
       THEN /\ rejected_connections' = rejected_connections + 1
            /\ sess' = [sess EXCEPT ![accepted + 1] = RejectedSocket]
            /\ UNCHANGED <<connections, active_handlers, next_connection_id,
                           total_connections, clock>>
       ELSE \E now \in clock..MaxTime :
            LET claimed == claim_connection_id(next_connection_id)
                connection_id == claimed.id IN
            /\ next_connection_id' = claimed.next
            /\ connections' = Put(connections, connection_id,
                                  ConnectionInfo(connection_id, now))
            /\ total_connections' = total_connections + 1
            /\ active_handlers' = Put(active_handlers, connection_id, accepted + 1)
            /\ sess' = [sess EXCEPT ![accepted + 1] = NewSession(connection_id)]
            /\ clock' = now
            /\ UNCHANGED rejected_connections
    /\ UNCHANGED <<max_connections, reaper, limits, stop_task>>
    /\ UNCHANGED unitVars

\* a handler that goes back to reading once one packet of a response is out
write_packet_then_read(r, delivered) ==
    LET n == next_sequence_id(r.seq)
        p == Head(r.todo)
        r2 == [r EXCEPT !.seq = n.seq, !.todo = Tail(@),
                        !.out = Append(@, [kind |-> p.kind, data |-> p.data,
                                           msg |-> p.msg, seq |-> n.id])]
    IN IF ~delivered THEN Raise([r EXCEPT !.seq = n.seq, !.broken = TRUE], r.ctx)
       ELSE IF r2.todo = <<>> THEN Completed(r2, r.ctx)
       ELSE [r2 EXCEPT !.pc = "cmd_read"]

\* _write_packet(packet) for the next packet the handler builds: the builder
\* claims the sequence id, the write and drain succeed (delivered) or raise.
\* A writer that is closing or has failed before fails again.
write_packet(r, delivered) ==
    LET n == next_sequence_id(r.seq)
        p == Head(r.todo)
        r1 == [r EXCEPT !.seq = n.seq,
                        !.late = IF r.eof \/ r.broken THEN @ + 1 ELSE @]
    IN IF delivered
       THEN LET r2 == [r1 EXCEPT !.todo = Tail(@),
                                 !.out = Append(@, [kind |-> p.kind, data |-> p.data,
                                                    msg |-> p.msg, seq |-> n.id])]
            IN IF r2.todo = <<>> THEN Completed(r2, r.ctx) ELSE r2
       ELSE Raise([r1 EXCEPT !.broken = TRUE], r.ctx)

Send(s) ==
    /\ sess[s].pc = "send"
    /\ \E delivered \in BOOLEAN :
         /\ delivered => ~sess[s].broken /\ ~sess[s].closing
         /\ sess' = [sess EXCEPT ![s] = write_packet(sess[s], delivered)]
    /\ UNCHANGED <<mgrVars, reaper, clock, accepted, limits, stop_task>>
    /\ UNCHANGED unitVars

\* _handle_authentication from the return of _read_packet: no packet (end of
\* stream), or a packet, which parse_handshake_response rejects or turns into
\* the auth_info the session goes on with
AuthRead(s) ==
    /\ sess[s].pc = "auth_read"
    /\ \/ sess' = [sess EXCEPT ![s] = Raise([sess[s] EXCEPT !.eof = TRUE], "auth")]
       \/ \E hl \in limits.headers, payload \in limits.responses :
            LET auth_info == parse_handshake_response(payload, ReadLengthBytes(LE3(hl)))
                r == [sess[s] EXCEPT !.resp = payload]
            IN sess' = [sess EXCEPT ![s] =
                           IF ~auth_info.parsed THEN Raise(r, "auth")
                           ELSE handle_authentication(r, auth_info)]
    /\ UNCHANGED <<mgrVars, reaper, clock, accepted, limits, stop_task>>
    /\ UNCHANGED unitVars

\* one turn of the loop of _handle_commands from the return of _read_packet
CmdRead(s) ==
    /\ sess[s].pc = "cmd_read"
    /\ \/ sess' = [sess EXCEPT ![s] = [@ EXCEPT !.eof = TRUE, !.pc = "close",
                                                !.ctx = "finally"]]
       \/ /\ sess[s].ncmd < limits.cmds
          /\ \E cmd \in limits.commands :
             \E hl \in limits.headers \cap AnnouncedFor(cmd) :
               sess' = [sess EXCEPT ![s] =
                           process_command([@ EXCEPT !.ncmd = @ + 1, !.hdr = hl,
                                                     !.heard = clock,
                                                     !.cmd = cmd, !.out = <<>>],
                                           cmd, ReadLengthBytes(LE3(hl)))]
    /\ UNCHANGED <<mgrVars, reaper, clock, accepted, limits, stop_task>>
    /\ UNCHANGED unitVars

\* _close_connection up to wait_closed
Close(s) ==
    /\ sess[s].pc = "close"
    /\ sess' = [sess EXCEPT ![s] =
                   IF ~@.closing THEN [@ EXCEPT !.closing = TRUE, !.pc = "wait_closed"]
                   ELSE [@ EXCEPT !.pc = "cleanup"]]
    /\ UNCHANGED <<mgrVars, reaper, clock, accepted, limits, stop_task>>
    /\ UNCHANGED unitVars

\* wait_closed returns; handle_connection returns or raises into _handle_connection
WaitClosed(s) ==
    /\ sess[s].pc = "wait_closed"
    /\ sess' = [sess EXCEPT ![s].pc = "cleanup"]
    /\ UNCHANGED <<mgrVars, reaper, clock, accepted, limits, stop_task>>
    /\ UNCHANGED unitVars

\* the finally block of _handle_connection: _cleanup_connection(connection_id)
SessionCleanup(s) ==
    /\ sess[s].pc = "cleanup"
    /\ LET c == cleanup_connection(sess[s].cid, connections, active_handlers, sess) IN
       /\ connections' = c.conns
       /\ active_handlers' = c.hands
       /\ sess' = IF c.waits THEN [c.sess EXCEPT ![s].pc = "cleanup_wait"]
                  ELSE [c.sess EXCEPT ![s] = DoneSession(@)]
    /\ UNCHANGED <<next_connection_id, max_connections, total_connections,
                   rejected_connections, reaper, clock, accepted, limits, stop_task>>
    /\ UNCHANGED unitVars

\* _cleanup_loop wakes: _cleanup_idle_connections to its first suspension point
ReaperScan ==
    /\ reaper.pc = "sleep"
    /\ \E now \in clock..MaxTime :
         LET idle_connections == IdleConnections(connections, now)
             l == cleanup_idle_loop(idle_connections, connections,
                                    active_handlers, sess) IN
         /\ clock' = now
         /\ connections' = l.conns
         /\ active_handlers' = l.hands
         /\ sess' = l.sess
         /\ reaper' = [reaper EXCEPT !.pc = IF l.cur = 0 THEN "sleep" ELSE "wait",
                                     !.cur = l.cur, !.rest = l.rest]
    /\ UNCHANGED <<next_connection_id, max_connections, total_connections,
                   rejected_connections, accepted, limits, stop_task>>
    /\ UNCHANGED unitVars

\* _cleanup_connection after wait_closed returned: del _active_handlers[id],
\* which raises KeyError when another task deleted the entry meanwhile.
\* Task 0 is the reaper, which then goes on with its loop; its loop logs a
\* raised error and sleeps, and cur and rest keep the ids the abandoned pass
\* was at and had not come to. Any other task is a session in its finally
\* block.
CleanupResume(t) ==
    /\ UNCHANGED unitVars
    /\ IF t = 0
       THEN /\ reaper.pc = "wait"
            /\ IF reaper.cur \in DOMAIN active_handlers
               THEN LET l == cleanup_idle_loop(reaper.rest, connections,
                                               Remove(active_handlers, reaper.cur), sess) IN
                    /\ connections' = l.conns
                    /\ active_handlers' = l.hands
                    /\ sess' = l.sess
                    /\ reaper' = [reaper EXCEPT !.pc = IF l.cur = 0 THEN "sleep" ELSE "wait",
                                                !.cur = l.cur, !.rest = l.rest]
               ELSE /\ reaper' = [reaper EXCEPT !.pc = "sleep", !.raised = TRUE]
                    /\ UNCHANGED <<connections, active_handlers, sess>>
            /\ UNCHANGED <<next_connection_id, max_connections, total_connections,
                           rejected_connections, clock, accepted, limits, stop_task>>
       ELSE /\ sess[t].pc = "cleanup_wait"
            /\ active_handlers' = IF sess[t].cid \in DOMAIN active_handlers
                                  THEN Remove(active_handlers, sess[t].cid)
                                  ELSE active_handlers
            /\ sess' = [sess EXCEPT ![t] = DoneSession(@)]
            /\ UNCHANGED <<connections, next_connection_id, max_connections,
                           total_connections, rejected_connections, reaper, clock,
                           accepted, limits, stop_task>>

\* ConnectionManager.stop up to its first suspension point: the reaper task
\* is cancelled and awaited. The reaper, asleep or waiting in a close, takes
\* the CancelledError at its await and leaves its loop. The callers of stop
\* have closed the listeners before (main.py, examples/basic_usage.py).
StopCancel ==
    /\ stop_task = "running"
    /\ stop_task' = "cancel"
    /\ reaper' = [reaper EXCEPT !.pc = "cancelled", !.cur = 0, !.rest = <<>>]
    /\ UNCHANGED <<mgrVars, clock, accepted, limits, sess>>
    /\ UNCHANGED unitVars

\* a stop that cancels the reaper and closes no handler
StopLeavesHandlers ==
    /\ stop_task = "cancel"
    /\ stop_task' = "gather"
    /\ UNCHANGED <<mgrVars, reaper, clock, accepted, limits, sess>>
    /\ UNCHANGED unitVars

\* stop after the reaper ended: one _close_handler task per handler in
\* _active_handlers, each closing a writer that is not closing yet
StopCloseHandlers ==
    /\ stop_task = "cancel"
    /\ stop_task' = "gather"
    /\ sess' = [s \in DOMAIN sess |->
                   IF \E c \in DOMAIN active_handlers : active_handlers[c] = s
                   THEN [sess[s] EXCEPT !.closing = TRUE]
                   ELSE sess[s]]
    /\ UNCHANGED <<mgrVars, reaper, clock, accepted, limits>>
    /\ UNCHANGED unitVars

\* gather(*tasks, return_exceptions=True) returns; stop returns
StopReturn ==
    /\ stop_task = "gather"
    /\ stop_task' = "done"
    /\ UNCHANGED <<mgrVars, reaper, clock, accepted, limits, sess>>
    /\ UNCHANGED unitVars

Next ==
    \/ StopCancel
    \/ StopCloseHandlers
    \/ StopReturn
    \/ Accept
    \/ \E s \in Sockets : Send(s)
    \/ \E s \in Sockets : AuthRead(s)
    \/ \E s \in Sockets : CmdRead(s)
    \/ \E s \in Sockets : Close(s)
    \/ \E s \in Sockets : WaitClosed(s)
    \/ \E s \in Sockets : SessionCleanup(s)
    \/ ReaperScan
    \/ \E t \in {0} \cup Sockets : CleanupResume(t)

Spec == Init /\ [][Next]_vars
SpecSession == InitSession /\ [][Next]_vars
SpecPing == InitPing /\ [][Next]_vars
SpecAuth == InitAuth /\ [][Next]_vars
SpecPair == InitPair /\ [][Next]_vars

\* The event loop runs every task that is ready: a close, wait_closed and the
\* cleanup that follows them come to an end. A read or a drain on an open
\* writer waits for the client, and the reaper for its timer: no fairness for
\* them.
ServerStep(s) ==
    Close(s) \/ WaitClosed(s) \/ SessionCleanup(s) \/ CleanupResume(s)
\* On a writer that was closed the transport ends the stream: the session's
\* read returns and its write fails without the client doing anything.
ClosedStep(s) ==
    sess[s].closing /\ (Send(s) \/ AuthRead(s) \/ CmdRead(s))
FairTurnover ==
    /\ InitTurnover /\ [][Next]_vars
    /\ \A s \in 1..TurnoverSockets : WF_vars(ServerStep(s)) /\ WF_vars(ClosedStep(s))
    /\ WF_vars(CleanupResume(0))
\* stop, once it has cancelled the reaper, runs to its end
FairShutdown ==
    /\ InitPair /\ [][Next]_vars
    /\ \A s \in 1..PairSockets : WF_vars(ServerStep(s)) /\ WF_vars(ClosedStep(s))
    /\ WF_vars(CleanupResume(0))
    /\ WF_vars(StopCloseHandlers) /\ WF_vars(StopReturn)

\* ------------------------------------------------- a PacketBuilder on its own
\* a server no client comes to, for the runs that exercise one object
NoClients ==
    [sockets |-> 1, cmds |-> 0, headers |-> LightHeaders,
     commands |-> LightCommands, responses |-> LightResponses]

\* struct.pack('<B', v) raises struct.error unless 0 <= v <= 255
FitsByte(v) == 0 <= v /\ v <= 255

\* PacketBuilder(): the counter at 0, no packet built yet
InitBuilder ==
    /\ InitServer(1, NoClients)
    /\ app = NoApp /\ server = NoServer /\ pool = NoPool
    /\ codec = [pc |-> "builder", sequence_id |-> 0, prev |-> -1,
                packet |-> [kind |-> "none", sequence_id |-> -1], packed |-> TRUE]

\* the last statement of every build_* : Packet(payload, self.next_sequence_id()),
\* and the header byte to_bytes packs the id into
Build(p) ==
    /\ codec.pc = "builder"
    /\ LET n == next_sequence_id(codec.sequence_id) IN
       codec' = [codec EXCEPT !.sequence_id = n.seq,
                              !.prev = codec.packet.sequence_id,
                              !.packet = [kind |-> p.kind, sequence_id |-> n.id],
                              !.packed = FitsByte(n.id)]
    /\ UNCHANGED <<serverVars, app, server, pool>>

build_handshake == Build(HandshakePkt(1))
build_ok == Build(OkPkt(0))
build_error == Build(ErrPkt(1064, <<"Unknown error">>))
build_eof == Build(EofPkt)

NextBuilder == build_handshake \/ build_ok \/ build_error \/ build_eof
SpecBuilder == InitBuilder /\ [][NextBuilder]_vars

\* ------------------------------------------------------ a Packet on its own
\* A byte string of n equal bytes is [len |-> n, fill |-> b]; the empty one is
\* Bytes(0, 0). A payload is such a string; a packet's bytes are the header
\* (a sequence of at most four bytes) and the body that follows it.
Bytes(n, b) == [len |-> n, fill |-> IF n = 0 THEN 0 ELSE b]
\* data[:k] of such a string
Prefix(bs, k) == IF k >= bs.len THEN bs ELSE Bytes(k, bs.fill)
NoData == [ok |-> FALSE, error |-> "none", header |-> <<>>, body |-> Bytes(0, 0)]
NoParsed == [done |-> FALSE]

\* struct.pack('<I', n) for 0 <= n < 2^31
pack_I(n) == <<n % 256, (n \div 256) % 256, (n \div 65536) % 256, (n \div 16777216) % 256>>
\* struct.unpack('<I', b)[0] of four bytes the last of which is 0
unpack_I3(b) == b[1] + 256 * b[2] + 65536 * b[3]
\* a <= b for two little-endian byte strings of the same length
RECURSIVE LELeq(_, _)
LELeq(a, b) ==
    IF a = <<>> THEN TRUE
    ELSE LET n == Len(a) IN
         IF a[n] # b[n] THEN a[n] < b[n]
         ELSE LELeq(SubSeq(a, 1, n - 1), SubSeq(b, 1, n - 1))
\* the little-endian byte string a, padded with zero bytes to n bytes
Pad(a, n) == a \o [i \in 1..(n - Len(a)) |-> 0]

\* a to_bytes that refuses the largest payload the header can announce
to_bytes_rejects_largest(packet) ==
    IF packet.payload.len >= 16777215
    THEN [NoData EXCEPT !.error = "ProtocolError"]
    ELSE [ok |-> TRUE, error |-> "none",
          header |-> SubSeq(pack_I(packet.payload.len), 1, 3) \o <<packet.sequence_id>>,
          body |-> packet.payload]
\* Packet.to_bytes
to_bytes(packet) ==
    IF packet.payload.len > 16777215
    THEN [NoData EXCEPT !.error = "ProtocolError"]
    ELSE IF ~FitsByte(packet.sequence_id)
    THEN [NoData EXCEPT !.error = "struct.error"]
    ELSE [ok |-> TRUE, error |-> "none",
          header |-> SubSeq(pack_I(packet.payload.len), 1, 3) \o <<packet.sequence_id>>,
          body |-> packet.payload]

\* Packet.from_bytes(data)
from_bytes(data) ==
    IF Len(data.header) + data.body.len < 4
    THEN [done |-> TRUE, ok |-> FALSE, length |-> 0, sequence_id |-> 0,
          payload |-> Bytes(0, 0)]
    ELSE LET length_bytes == SubSeq(data.header, 1, 3) \o <<0>>
             length == unpack_I3(length_bytes)
             sequence_id == data.header[4]
         IN IF data.body.len < length
            THEN [done |-> TRUE, ok |-> FALSE, length |-> length,
                  sequence_id |-> sequence_id, payload |-> Bytes(0, 0)]
            ELSE [done |-> TRUE, ok |-> TRUE, length |-> length,
                  sequence_id |-> sequence_id, payload |-> Prefix(data.body, length)]

\* MySQLProtocolHandler._read_packet on a stream that holds data and then ends:
\* the packet it returns, or None, and the length it computed
read_packet(data) ==
    IF Len(data.header) + data.body.len < 4
    THEN [done |-> TRUE, packet |-> FALSE, length |-> <<>>, sequence_id |-> 0,
          payload |-> Bytes(0, 0)]
    ELSE LET length == ReadLengthBytes(SubSeq(data.header, 1, 3))
             sequence_id == data.header[4]
             available == Pad(pack_I(data.body.len), Len(length))
         IN IF LenIsZero(length)
            THEN [done |-> TRUE, packet |-> TRUE, length |-> length,
                  sequence_id |-> sequence_id, payload |-> Bytes(0, 0)]
            ELSE IF LELeq(length, available)
            THEN [done |-> TRUE, packet |-> TRUE, length |-> length,
                  sequence_id |-> sequence_id,
                  payload |-> Prefix(data.body, unpack_I3(length))]
            ELSE [done |-> TRUE, packet |-> FALSE, length |-> length,
                  sequence_id |-> sequence_id, payload |-> Bytes(0, 0)]

\* payload lengths around the switches of the length fields, sequence ids
PayloadLens == {0, 1, 250, 251, 65535, 65536, 16777215, 16777216, 16777217}
PayloadFills == {7, 255}
SequenceIds == {0, 1, 254, 255}
\* what the receiver gets of the bytes: all, all but the last, the first three
Cuts == {"all", "less1", "three"}

\* Packet(payload, sequence_id)
InitPacket ==
    /\ InitServer(1, NoClients)
    /\ app = NoApp /\ server = NoServer /\ pool = NoPool
    /\ \E n \in PayloadLens, b \in PayloadFills, sequence_id \in SequenceIds :
         codec = [pc |-> "packet",
                  packet |-> [payload |-> Bytes(n, b), sequence_id |-> sequence_id],
                  cut |-> "none", data |-> NoData, parsed |-> NoParsed, read |-> NoParsed]

\* packet.to_bytes()
ToBytes ==
    /\ codec.pc = "packet"
    /\ LET data == to_bytes(codec.packet) IN
       codec' = [codec EXCEPT !.pc = IF data.ok THEN "bytes" ELSE "rejected", !.data = data]
    /\ UNCHANGED <<serverVars, app, server, pool>>

\* the bytes on their way: some of them are lost at the end
Transmit ==
    /\ codec.pc = "bytes"
    /\ \E cut \in Cuts :
         LET total == 4 + codec.data.body.len
             kept == CASE cut = "all" -> total [] cut = "less1" -> total - 1 [] OTHER -> 3
         IN codec' = [codec EXCEPT
                        !.pc = "received", !.cut = cut,
                        !.data = [@ EXCEPT !.header = SubSeq(@, 1, IF kept < 4 THEN kept ELSE 4),
                                           !.body = Prefix(@, IF kept < 4 THEN 0 ELSE kept - 4)]]
    /\ UNCHANGED <<serverVars, app, server, pool>>

\* Packet.from_bytes(data)
FromBytes ==
    /\ codec.pc = "received" /\ ~codec.parsed.done
    /\ codec' = [codec EXCEPT !.parsed = from_bytes(codec.data)]
    /\ UNCHANGED <<serverVars, app, server, pool>>

\* _read_packet() of a session whose stream holds these bytes
ReadPacket ==
    /\ codec.pc = "received" /\ ~codec.read.done
    /\ codec' = [codec EXCEPT !.read = read_packet(codec.data)]
    /\ UNCHANGED <<serverVars, app, server, pool>>

NextPacket == ToBytes \/ Transmit \/ FromBytes \/ ReadPacket
SpecPacket == InitPacket /\ [][NextPacket]_vars

\* --------------------------------------------- length-encoded integers
\* An integer of up to 64 bits is its eight little-endian bytes.
Zero8 == [i \in 1..8 |-> 0]
\* value < 2^(8k): the bytes after the k-th are 0
Below256Pow(value, k) == \A i \in (k + 1)..Len(value) : value[i] = 0

\* an encoder whose one-byte form reaches one value too far
encode_length_encoded_int_to_251(value) ==
    IF Below256Pow(value, 1) /\ value[1] <= 251 THEN << value[1] >>
    ELSE IF Below256Pow(value, 2) THEN << 252, value[1], value[2] >>
    ELSE IF Below256Pow(value, 3) THEN << 253, value[1], value[2], value[3] >>
    ELSE << 254 >> \o value
\* PacketBuilder._encode_length_encoded_int(value)
encode_length_encoded_int(value) ==
    IF Below256Pow(value, 1) /\ value[1] < 251 THEN << value[1] >>
    ELSE IF Below256Pow(value, 2) THEN << 252, value[1], value[2] >>
    ELSE IF Below256Pow(value, 3) THEN << 253, value[1], value[2], value[3] >>
    ELSE << 254 >> \o value

\* PacketParser._decode_length_encoded_int(stream): the value, or the error
\* raised (ProtocolError for a first byte that is no tag, struct.error when the
\* stream ends inside the integer)
decode_length_encoded_int(stream) ==
    LET Value(v) == [done |-> TRUE, ok |-> TRUE, error |-> "none", value |-> Pad(v, 8)]
        Error(e) == [done |-> TRUE, ok |-> FALSE, error |-> e, value |-> Zero8]
        Read(n) == IF Len(stream) < 1 + n THEN Error("struct.error")
                   ELSE Value(SubSeq(stream, 2, 1 + n))
    IN IF stream = <<>> THEN Value(<<0>>)
       ELSE IF stream[1] < 251 THEN Value(<< stream[1] >>)
       ELSE IF stream[1] = 252 THEN Read(2)
       ELSE IF stream[1] = 253 THEN Read(3)
       ELSE IF stream[1] = 254 THEN Read(8)
       ELSE Error("ProtocolError")

\* the values of the run: around 251, 65536 and 16777216, and up to 2^64 - 1
LeiValues ==
    { << b1, b2, b3, b4, 0, 0, 0, b8 >> :
        b1 \in {0, 1, 250, 251, 255}, b2 \in {0, 1, 255}, b3 \in {0, 1, 255},
        b4 \in {0, 1}, b8 \in {0, 255} }
    \cup { [i \in 1..8 |-> 255] }
\* streams no encoder wrote: a first byte that is no tag, an integer cut short
RawStreams == { <<255>>, <<255, 1, 0>>, <<251>>, <<252, 1>>, <<254, 1, 2, 3>> }

InitLei ==
    /\ InitServer(1, NoClients)
    /\ app = NoApp /\ server = NoServer /\ pool = NoPool
    /\ \/ \E value \in LeiValues :
            codec = [pc |-> "value", value |-> value, stream |-> <<>>,
                     decoded |-> NoParsed]
       \/ \E stream \in RawStreams :
            codec = [pc |-> "raw", value |-> Zero8, stream |-> stream,
                     decoded |-> NoParsed]

\* _encode_length_encoded_int(value)
Encode ==
    /\ codec.pc = "value"
    /\ codec' = [codec EXCEPT !.pc = "encoded",
                              !.stream = encode_length_encoded_int(codec.value)]
    /\ UNCHANGED <<serverVars, app, server, pool>>

\* _decode_length_encoded_int(BytesIO(stream))
Decode ==
    /\ codec.pc \in {"encoded", "raw"} /\ ~codec.decoded.done
    /\ codec' = [codec EXCEPT !.decoded = decode_length_encoded_int(codec.stream)]
    /\ UNCHANGED <<serverVars, app, server, pool>>

NextLei == Encode \/ Decode
SpecLei == InitLei /\ [][NextLei]_vars

\* --------------------------------------------------------------- main.py
\* Config._data is a function from the dotted keys that are set to their values.
\* Config.get(key, default)
config_get(data, key, default) == IF key \in DOMAIN data THEN data[key] ELSE default
\* int(value) of apply_env_overrides: the strings it converts, -1 for ValueError
IntOf(value) == CASE value = "3310" -> 3310 [] OTHER -> -1
\* value.lower() in ('true', '1', 'yes', 'on')
Truthy(value) == value \in {"true", "True", "1", "yes", "on", "ON"}

\* apply_env_overrides(config): the environment variables that set the host,
\* the MySQL port and the debug flag
apply_env_overrides(data, env) ==
    LET d1 == IF "HCHDB_HOST" \in DOMAIN env
              THEN Put(data, "server.host", env["HCHDB_HOST"]) ELSE data
        d2 == IF "HCHDB_MYSQL_PORT" \in DOMAIN env /\ IntOf(env["HCHDB_MYSQL_PORT"]) # -1
              THEN Put(d1, "server.ports.mysql", IntOf(env["HCHDB_MYSQL_PORT"])) ELSE d1
    IN IF "HCHDB_DEBUG" \in DOMAIN env
       THEN Put(d2, "development.debug", Truthy(env["HCHDB_DEBUG"])) ELSE d2

\* HchDBApplication._init_config: init_config makes a new Config from the file
\* and makes it the global one, apply_env_overrides sets the environment's
\* values in it; a file that does not load raises ConfigurationError, which
\* main answers with sys.exit(1). self.config and the global configuration are
\* one object.
app_init_config(a) ==
    IF ~a.file.loads THEN [a EXCEPT !.pc = "exit"]
    ELSE [a EXCEPT !.config_set = TRUE, !.inits = @ + 1,
                   !.config = apply_env_overrides(a.file.data, a.env)]

\* the configuration files of the run: none found, one that sets the three
\* keys, one that does not parse
ConfigFiles ==
    { [loads |-> TRUE, data |-> <<>>],
      [loads |-> TRUE,
       data |-> Put(Put(Put(<<>>, "server.host", "127.0.0.1"),
                        "server.ports.mysql", 3306), "development.debug", FALSE)],
      [loads |-> FALSE, data |-> <<>>] }
Environments ==
    { <<>>, Put(<<>>, "HCHDB_HOST", "192.168.0.9"), Put(<<>>, "HCHDB_MYSQL_PORT", "3310"),
      Put(<<>>, "HCHDB_MYSQL_PORT", "mysql"), Put(<<>>, "HCHDB_DEBUG", "on") }
\* the command line: --host ("" when absent), --port (0 when absent), --debug
CommandLines == [host : {"", "10.0.0.1"}, port : {0, 3307}, debug : BOOLEAN]

\* main is entered with its options parsed
InitApp ==
    /\ InitServer(1, NoClients)
    /\ codec = NoCodec
    /\ server = NoServer /\ pool = NoPool
    /\ \E args \in CommandLines, file \in ConfigFiles, env \in Environments :
         app = [pc |-> "main", args |-> args, file |-> file, env |-> env,
                config_set |-> FALSE, config |-> <<>>, inits |-> 0,
                listening |-> [host |-> "", port |-> 0], debug_mode |-> FALSE]

\* main: app = HchDBApplication(config), then the command-line overrides
main ==
    /\ app.pc = "main"
    /\ LET args == app.args
           a0 == IF args.host # "" \/ args.port # 0 \/ args.debug
                 THEN app_init_config(app) ELSE app
           c1 == IF args.host # "" THEN Put(a0.config, "server.host", args.host)
                 ELSE a0.config
           c2 == IF args.port # 0 THEN Put(c1, "server.ports.mysql", args.port) ELSE c1
           c3 == IF args.debug THEN Put(c2, "development.debug", TRUE) ELSE c2
       IN app' = IF a0.pc = "exit" THEN a0
                 ELSE [a0 EXCEPT !.pc = "start",
                                 !.config = IF a0.config_set THEN c3 ELSE a0.config]
    /\ UNCHANGED <<serverVars, codec, server, pool>>

\* HchDBApplication.start: self._init_config()
start_init_config ==
    /\ app.pc = "start"
    /\ app' = LET a == app_init_config(app) IN
              IF a.pc = "exit" THEN a ELSE [a EXCEPT !.pc = "configured"]
    /\ UNCHANGED <<serverVars, codec, server, pool>>

\* HchDBApplication.start: ConnectionManager() and HchDBServer(...) take the
\* global configuration, and the MySQL listener is started on its host and port
start_components ==
    /\ app.pc = "configured"
    /\ app' = [app EXCEPT
                 !.pc = "started",
                 !.listening = [host |-> config_get(app.config, "server.host", "0.0.0.0"),
                                port |-> config_get(app.config, "server.ports.mysql", 3306)],
                 !.debug_mode = config_get(app.config, "development.debug", FALSE)]
    /\ UNCHANGED <<serverVars, codec, server, pool>>

NextApp == main \/ start_init_config \/ start_components
SpecApp == InitApp /\ [][NextApp]_vars

\* -------------------------------------------------------------- HchDBServer
\* server.py: an HchDBServer and the one task that calls its start and stop.
\* servers is self._servers (the listeners by name), listening the ports the
\* operating system holds open for them, before the fields as the last call
\* found them, result how the last call ended.
ServerCalls == 4         \* calls of start and stop in a run

\* the listeners start opens, in its order; xprotocol only when configured
ListenerOrder(xprotocol) ==
    IF xprotocol THEN <<"mysql", "management", "internal", "xprotocol">>
    ELSE <<"mysql", "management", "internal">>

ServerFields(srv) ==
    [servers |-> srv.servers, listening |-> srv.listening, running |-> srv.running]

\* HchDBServer.stop
server_stop(srv) ==
    IF ~srv.running THEN srv
    ELSE [srv EXCEPT !.listening = @ \ { srv.servers[i] : i \in 1..Len(srv.servers) },
                     !.servers = <<>>,
                     !.running = FALSE]

\* HchDBServer(connection_manager): no listener, not running
InitListen ==
    /\ InitServer(1, NoClients)
    /\ codec = NoCodec /\ app = NoApp /\ pool = NoPool
    /\ \E xprotocol \in BOOLEAN :
         server = [pc |-> "idle", servers |-> <<>>, listening |-> {}, running |-> FALSE,
                   xprotocol |-> xprotocol, next |-> 0, calls |-> 0,
                   result |-> "none",
                   before |-> [servers |-> <<>>, listening |-> {}, running |-> FALSE]]

\* start is called: it raises on a running server, else enters its try block
server_start ==
    /\ server.pc = "idle"
    /\ server.calls < ServerCalls
    /\ server' = IF server.running
                 THEN [server EXCEPT !.calls = @ + 1, !.before = ServerFields(server),
                                     !.result = "already_running"]
                 ELSE [server EXCEPT !.calls = @ + 1, !.before = ServerFields(server),
                                     !.result = "none", !.pc = "starting", !.next = 1]
    /\ UNCHANGED <<serverVars, codec, app, pool>>

\* one _start_*_server of start's try block: asyncio.start_server returns a
\* listener, which is appended to _servers, or raises (a port that is held
\* open cannot be bound again). After the last one _running is set; on an
\* error the except clause awaits stop() and raises again.
start_listener(name) ==
    /\ server.pc = "starting"
    /\ server.next <= Len(ListenerOrder(server.xprotocol))
    /\ ListenerOrder(server.xprotocol)[server.next] = name
    /\ \E bound \in BOOLEAN :
         /\ bound => name \notin server.listening
         /\ server' =
              IF bound
              THEN LET s1 == [server EXCEPT !.servers = Append(@, name),
                                            !.listening = @ \cup {name},
                                            !.next = @ + 1]
                   IN IF s1.next > Len(ListenerOrder(server.xprotocol))
                      THEN [s1 EXCEPT !.running = TRUE, !.pc = "idle", !.next = 0,
                                      !.result = "started"]
                      ELSE s1
              ELSE [server_stop(server) EXCEPT !.pc = "idle", !.next = 0,
                                               !.result = "start_failed"]
    /\ UNCHANGED <<serverVars, codec, app, pool>>

start_mysql_server == start_listener("mysql")
start_management_server == start_listener("management")
start_internal_server == start_listener("internal")
start_xprotocol_server == start_listener("xprotocol")

\* stop is called
stop_server ==
    /\ server.pc = "idle"
    /\ server.calls < ServerCalls
    /\ server' = [server_stop(server) EXCEPT
                    !.calls = @ + 1, !.before = ServerFields(server),
                    !.result = IF server.running THEN "stopped" ELSE "not_running"]
    /\ UNCHANGED <<serverVars, codec, app, pool>>

NextListen ==
    \/ server_start
    \/ start_mysql_server
    \/ start_management_server
    \/ start_internal_server
    \/ start_xprotocol_server
    \/ stop_server
SpecListen == InitListen /\ [][NextListen]_vars

\* ----------------------------------------------------------- ConnectionPool
\* pool.py: a ConnectionPool, the task that starts it, its maintenance task,
\* the task that stops it and the borrowers. A step runs one task from one
\* suspension point to the next: a wait for _pool_lock, the await of the
\* connection factory, asyncio.sleep, the await of the cancelled maintenance
\* task. _is_connection_valid and the close of a connection do not suspend.
PoolBorrowers == 2       \* tasks that call get_connection and return_connection
PoolMin == 1             \* min_connections
PoolMax == 2             \* max_connections
PoolCreations == 4       \* calls of the connection factory in a run
PoolStops == 2           \* calls of stop in a run

Borrowers == 1..PoolBorrowers
\* the lock's holder: no task, the maintenance task, the task inside stop
FreeLock == 0
MaintTask == PoolBorrowers + 1
StopTask == PoolBorrowers + 2
\* PoolConnection.connection_id of a borrower that holds nothing
NoConn == -1

\* PoolConnection(connection_id, ..., in_use); expired is what
\* _is_connection_valid computes from created_at, last_used and the clock
PoolConnection(id, in_use) == [id |-> id, in_use |-> in_use, expired |-> FALSE]

\* asyncio.Lock: free and nobody waiting, so that acquire does not suspend
LockFree(p) == p.lock.holder = FreeLock /\ p.lock.queue = <<>>
\* the lock was released and task t is the first waiter
Granted(p, t) ==
    p.lock.holder = FreeLock /\ p.lock.queue # <<>> /\ Head(p.lock.queue) = t
Enqueue(p, t) == [p EXCEPT !.lock.queue = Append(@, t)]
Dequeue(p) == [p EXCEPT !.lock.queue = Tail(@)]
Hold(p, t) == [p EXCEPT !.lock.holder = t]
Release(p) == [p EXCEPT !.lock.holder = FreeLock]
\* a cancelled waiter leaves the queue
Leave(p, t) == [p EXCEPT !.lock.queue = SelectSeq(@, LAMBDA x : x # t)]

IndexOf(conns, id) ==
    IF \E k \in 1..Len(conns) : conns[k].id = id
    THEN CHOOSE k \in 1..Len(conns) : conns[k].id = id
    ELSE 0
Without(conns, id) == SelectSeq(conns, LAMBDA c : c.id # id)

\* the for loop of _get_connection_from_pool: the first connection that is not
\* in use and valid (0: none)
FirstFree(conns) ==
    IF \E k \in 1..Len(conns) : ~conns[k].in_use /\ ~conns[k].expired
    THEN CHOOSE k \in 1..Len(conns) :
            /\ ~conns[k].in_use /\ ~conns[k].expired
            /\ \A j \in 1..(k - 1) : conns[j].in_use \/ conns[j].expired
    ELSE 0
\* a scan that takes the first valid connection, in use or not
FirstValid(conns) ==
    IF \E k \in 1..Len(conns) : ~conns[k].expired
    THEN CHOOSE k \in 1..Len(conns) :
            ~conns[k].expired /\ \A j \in 1..(k - 1) : conns[j].expired
    ELSE 0

\* a body of the lock that lends whatever valid connection comes first
borrow_locked_in_use(p, b) ==
    LET k == FirstValid(p.conns) IN
    IF k # 0
    THEN [p EXCEPT !.conns[k].in_use = TRUE, !.lent = TRUE,
                   !.b[b] = [pc |-> "holding", conn |-> p.conns[k].id, res |-> "got"]]
    ELSE IF Len(p.conns) < p.max
    THEN [Hold(p, b) EXCEPT !.b[b].pc = "creating"]
    ELSE [p EXCEPT !.b[b].pc = "sleeping"]
\* a body of the lock that creates while the pool holds max_connections
borrow_locked_one_over(p, b) ==
    LET k == FirstFree(p.conns) IN
    IF k # 0
    THEN [p EXCEPT !.conns[k].in_use = TRUE, !.lent = TRUE,
                   !.b[b] = [pc |-> "holding", conn |-> p.conns[k].id, res |-> "got"]]
    ELSE IF Len(p.conns) <= p.max
    THEN [Hold(p, b) EXCEPT !.b[b].pc = "creating"]
    ELSE [p EXCEPT !.b[b].pc = "sleeping"]
\* _get_connection_from_pool, the body of 'async with self._pool_lock' entered
\* by borrower b, to its return, to the await of the factory (the lock stays
\* held) or to the sleep
borrow_locked(p, b) ==
    LET k == FirstFree(p.conns) IN
    IF k # 0
    THEN [p EXCEPT !.conns[k].in_use = TRUE, !.lent = TRUE,
                   !.b[b] = [pc |-> "holding", conn |-> p.conns[k].id, res |-> "got"]]
    ELSE IF Len(p.conns) < p.max
    THEN [Hold(p, b) EXCEPT !.b[b].pc = "creating"]
    ELSE [p EXCEPT !.b[b].pc = "sleeping"]

\* one turn of the while loop of _get_connection_from_pool, _closed seen False
get_loop(p, b) ==
    IF LockFree(p) THEN borrow_locked(p, b)
    ELSE [Enqueue(p, b) EXCEPT !.b[b].pc = "lock_wait"]

\* _should_remove_connection(pool_conn) for the connection at index k
should_remove_connection(p, k) ==
    \/ p.conns[k].expired
    \/ Cardinality({ j \in 1..Len(p.conns) : ~p.conns[j].in_use }) > p.min

\* return_connection, the body of the lock, for the connection b holds. A
\* connection that stop took out of the pool is no longer in _pool: its
\* removal raises ValueError when _should_remove_connection asks for it
\* (gone_expired).
return_locked(p, b, gone_expired) ==
    LET k == IndexOf(p.conns, p.b[b].conn) IN
    IF k = 0
    THEN [p EXCEPT !.b[b] = [pc |-> "idle", conn |-> NoConn,
                             res |-> IF gone_expired THEN "raised" ELSE "returned"]]
    ELSE LET p1 == [p EXCEPT !.conns[k].in_use = FALSE,
                             !.b[b] = [pc |-> "idle", conn |-> NoConn, res |-> "returned"]]
         IN IF should_remove_connection(p1, k)
            THEN [p1 EXCEPT !.conns = Without(@, p.b[b].conn)]
            ELSE p1

\* _maintain_pool, the body of the lock to the await of the factory or its end
maintain_locked(p) ==
    LET kept == SelectSeq(p.conns, LAMBDA c : c.in_use \/ ~c.expired)
        p1 == [p EXCEPT !.conns = kept, !.maintained = TRUE]
    IN IF Len(kept) < p.min
       THEN [Hold(p1, MaintTask) EXCEPT !.maint = [pc |-> "creating",
                                                   needed |-> p.min - Len(kept)]]
       ELSE [p1 EXCEPT !.maint = [pc |-> "sleep", needed |-> 0]]

\* stop, the body of the lock: every connection is closed, _pool is cleared
stop_locked(p) == [p EXCEPT !.conns = <<>>, !.stopper = "done"]

\* stop after the maintenance task ended
stop_take_lock(p) ==
    IF LockFree(p) THEN stop_locked(p)
    ELSE [Enqueue(p, StopTask) EXCEPT !.stopper = "lock_wait"]

\* the maintenance task takes the CancelledError at its await
cancel_maintenance(p) ==
    LET p1 == CASE p.maint.pc = "lock_wait" -> Leave(p, MaintTask)
                [] p.maint.pc = "creating" -> Release(p)
                [] OTHER -> p
    IN [p1 EXCEPT !.maint = [pc |-> "ended", needed |-> 0]]

\* _create_initial_connections is done: asyncio.create_task(_maintenance_loop()),
\* whose loop ends at once when _closed is set
start_maintenance(p) ==
    [p EXCEPT !.starter = [pc |-> "done", i |-> 0],
              !.maint = [pc |-> IF p.closed THEN "ended" ELSE "sleep", needed |-> 0]]

\* get_pool_stats: the counts it derives from _pool
get_pool_stats(p) ==
    LET in_use == Cardinality({ k \in 1..Len(p.conns) : p.conns[k].in_use }) IN
    [active_connections |-> Len(p.conns), in_use_connections |-> in_use,
     idle_connections |-> Len(p.conns) - in_use,
     created_connections |-> p.created, failed_connections |-> p.failed,
     is_closed |-> p.closed]

\* ConnectionPool(name, min_connections, max_connections), not started
InitPool ==
    /\ InitServer(1, NoClients)
    /\ codec = NoCodec /\ app = NoApp /\ server = NoServer
    /\ \E factory \in {"succeeds", "may_fail"} :
         pool = [pc |-> "pool", min |-> PoolMin, max |-> PoolMax, factory |-> factory,
                 conns |-> <<>>, lock |-> [holder |-> FreeLock, queue |-> <<>>],
                 closed |-> FALSE, created |-> 0, failed |-> 0,
                 starter |-> [pc |-> "new", i |-> 0],
                 maint |-> [pc |-> "none", needed |-> 0],
                 stopper |-> "idle", stop_calls |-> 0, stop_noop |-> FALSE,
                 lent |-> FALSE, maintained |-> FALSE,
                 b |-> [x \in Borrowers |-> [pc |-> "idle", conn |-> NoConn, res |-> "none"]]]

PoolStep == pool.pc = "pool" /\ UNCHANGED <<serverVars, codec, app, server>>
FactoryCalls == pool.created + pool.failed
\* what the factory can do: ok is whether the awaited call returns a connection
Factory(ok) == pool.factory = "succeeds" => ok

\* start(connection_factory) to the first await of the factory
pool_start ==
    /\ PoolStep
    /\ pool.starter.pc = "new"
    /\ pool' = IF pool.closed THEN [pool EXCEPT !.starter.pc = "raised"]
               ELSE IF pool.min = 0 THEN start_maintenance(pool)
               ELSE [pool EXCEPT !.starter = [pc |-> "creating", i |-> 0]]

\* _create_initial_connections: one _create_connection returns its
\* PoolConnection, which the loop drops, or raises, which the loop logs
initial_connection ==
    /\ PoolStep
    /\ pool.starter.pc = "creating"
    /\ FactoryCalls < PoolCreations
    /\ \E ok \in BOOLEAN :
         /\ Factory(ok)
         /\ LET p1 == IF ok THEN [pool EXCEPT !.created = @ + 1]
                      ELSE [pool EXCEPT !.failed = @ + 1]
            IN pool' = IF pool.starter.i + 1 = pool.min THEN start_maintenance(p1)
                       ELSE [p1 EXCEPT !.starter.i = @ + 1]

\* get_connection by borrower b, to its first suspension point or its end
get_connection(b) ==
    /\ PoolStep
    /\ pool.starter.pc = "done"
    /\ pool.b[b].pc = "idle"
    /\ LET q == IF pool.closed THEN [pool EXCEPT !.b[b].res = "error"]
                ELSE get_loop([pool EXCEPT !.b[b].res = "none"], b)
       IN /\ q.b[b].pc = "creating" => FactoryCalls < PoolCreations
          /\ pool' = q

\* the lock is handed to a borrower that waited for it in get_connection
lock_granted_get(b) ==
    /\ PoolStep
    /\ pool.b[b].pc = "lock_wait"
    /\ Granted(pool, b)
    /\ LET q == borrow_locked(Dequeue(pool), b)
       IN /\ q.b[b].pc = "creating" => FactoryCalls < PoolCreations
          /\ pool' = q

\* _create_connection returns or raises inside the lock of get_connection
created_for_get(b) ==
    /\ PoolStep
    /\ pool.b[b].pc = "creating"
    /\ \E ok \in BOOLEAN :
         /\ Factory(ok)
         /\ pool' = IF ok
                    THEN [Release(pool) EXCEPT
                            !.conns = Append(@, PoolConnection(pool.created, TRUE)),
                            !.created = @ + 1, !.lent = TRUE,
                            !.b[b] = [pc |-> "holding", conn |-> pool.created,
                                      res |-> "got"]]
                    ELSE [Release(pool) EXCEPT !.failed = @ + 1,
                                               !.b[b].pc = "sleeping"]

\* a loop that goes on after the sleep without looking at _closed
wake_unchecked(b) ==
    /\ PoolStep
    /\ pool.b[b].pc = "sleeping"
    /\ LET q == get_loop(pool, b)
       IN /\ q.b[b].pc = "creating" => FactoryCalls < PoolCreations
          /\ pool' = q

\* asyncio.sleep(0.1) returns: the while condition, then the next turn
wake(b) ==
    /\ PoolStep
    /\ pool.b[b].pc = "sleeping"
    /\ LET q == IF pool.closed
                THEN [pool EXCEPT !.b[b] = [pc |-> "idle", conn |-> NoConn, res |-> "error"]]
                ELSE get_loop(pool, b)
       IN /\ q.b[b].pc = "creating" => FactoryCalls < PoolCreations
          /\ pool' = q

\* asyncio.timeout expires while get_connection is suspended
timeout(b) ==
    /\ PoolStep
    /\ pool.b[b].pc \in {"lock_wait", "creating", "sleeping"}
    /\ LET p1 == CASE pool.b[b].pc = "lock_wait" -> Leave(pool, b)
                   [] pool.b[b].pc = "creating" -> Release(pool)
                   [] OTHER -> pool
       IN pool' = [p1 EXCEPT !.b[b] = [pc |-> "idle", conn |-> NoConn, res |-> "error"]]

\* return_connection(pool_conn) by the borrower that holds pool_conn
return_connection(b) ==
    /\ PoolStep
    /\ pool.b[b].pc = "holding"
    /\ IF LockFree(pool)
       THEN \E gone_expired \in BOOLEAN : pool' = return_locked(pool, b, gone_expired)
       ELSE pool' = [Enqueue(pool, b) EXCEPT !.b[b].pc = "return_wait"]

\* the lock is handed to a borrower that waited for it in return_connection
lock_granted_return(b) ==
    /\ PoolStep
    /\ pool.b[b].pc = "return_wait"
    /\ Granted(pool, b)
    /\ \E gone_expired \in BOOLEAN :
         pool' = return_locked(Dequeue(pool), b, gone_expired)

\* return_connection(pool_conn) for a connection of the pool that is not in
\* use: the warning and the return
return_idle(b) ==
    /\ PoolStep
    /\ pool.b[b].pc = "idle"
    /\ pool.b[b].res # "noop"
    /\ \E k \in 1..Len(pool.conns) : ~pool.conns[k].in_use
    /\ pool' = [pool EXCEPT !.b[b].res = "noop"]

\* time passes: a connection's lifetime ends, or an idle one's idle_timeout
expire ==
    /\ PoolStep
    /\ \E k \in 1..Len(pool.conns) :
         /\ ~pool.conns[k].expired
         /\ pool' = [pool EXCEPT !.conns[k].expired = TRUE]

\* _maintenance_loop: the sleep returns, _maintain_pool asks for the lock
maintain_pool ==
    /\ PoolStep
    /\ pool.maint.pc = "sleep"
    /\ LET q == IF LockFree(pool) THEN maintain_locked(pool)
                ELSE [Enqueue(pool, MaintTask) EXCEPT !.maint.pc = "lock_wait"]
       IN /\ q.maint.pc = "creating" => FactoryCalls < PoolCreations
          /\ pool' = q

\* the lock is handed to the maintenance task
lock_granted_maintain ==
    /\ PoolStep
    /\ pool.maint.pc = "lock_wait"
    /\ Granted(pool, MaintTask)
    /\ LET q == maintain_locked(Dequeue(pool))
       IN /\ q.maint.pc = "creating" => FactoryCalls < PoolCreations
          /\ pool' = q

\* _maintain_pool: one _create_connection of the top-up returns or raises
created_for_maintain ==
    /\ PoolStep
    /\ pool.maint.pc = "creating"
    /\ \E ok \in BOOLEAN :
         /\ Factory(ok)
         /\ ok /\ pool.maint.needed > 1 => FactoryCalls + 1 < PoolCreations
         /\ pool' =
              IF ok
              THEN LET p1 == [pool EXCEPT
                                !.conns = Append(@, PoolConnection(pool.created, FALSE)),
                                !.created = @ + 1]
                   IN IF pool.maint.needed > 1
                      THEN [p1 EXCEPT !.maint.needed = @ - 1]
                      ELSE [Release(p1) EXCEPT !.maint = [pc |-> "sleep", needed |-> 0]]
              ELSE [Release(pool) EXCEPT !.failed = @ + 1,
                                         !.maint = [pc |-> "sleep", needed |-> 0]]

\* stop is called: a no-op on a closed pool; else _closed is set, the
\* maintenance task is cancelled and awaited, or, without one, the lock taken
pool_stop ==
    /\ PoolStep
    /\ pool.stop_calls < PoolStops
    /\ pool' =
         IF pool.closed
         THEN [pool EXCEPT !.stop_calls = @ + 1, !.stop_noop = TRUE]
         ELSE LET p1 == [pool EXCEPT !.stop_calls = @ + 1, !.closed = TRUE]
              IN IF pool.maint.pc = "none" THEN stop_take_lock(p1)
                 ELSE [cancel_maintenance(p1) EXCEPT !.stopper = "await_maint"]

\* the await of the cancelled maintenance task returns
stop_after_maintenance ==
    /\ PoolStep
    /\ pool.stopper = "await_maint"
    /\ pool' = stop_take_lock(pool)

\* the lock is handed to stop
lock_granted_stop ==
    /\ PoolStep
    /\ pool.stopper = "lock_wait"
    /\ Granted(pool, StopTask)
    /\ pool' = stop_locked(Dequeue(pool))

NextPool ==
    \/ pool_start
    \/ initial_connection
    \/ \E b \in Borrowers : get_connection(b)
    \/ \E b \in Borrowers : lock_granted_get(b)
    \/ \E b \in Borrowers : created_for_get(b)
    \/ \E b \in Borrowers : wake(b)
    \/ \E b \in Borrowers : timeout(b)
    \/ \E b \in Borrowers : return_connection(b)
    \/ \E b \in Borrowers : lock_granted_return(b)
    \/ \E b \in Borrowers : return_idle(b)
    \/ expire
    \/ maintain_pool
    \/ lock_granted_maintain
    \/ created_for_maintain
    \/ pool_stop
    \/ stop_after_maintenance
    \/ lock_granted_stop
SpecPool == InitPool /\ [][NextPool]_vars

\* ------------------------------------------------------------------ claims
\* C1: at every moment the number of entries of connections is at most
\* max_connections.
C1_CapNeverExceeded == Cardinality(DOMAIN connections) <= max_connections

\* the table is full and a further socket has been refused
C1_FullAndRefused ==
    /\ Cardinality(DOMAIN connections) = max_connections
    /\ rejected_connections > 0
    /\ total_connections = max_connections

\* C2: a socket that arrives while connections holds max_connections entries
\* is closed with no packet written to it and no session or table entry made
\* for it, and rejected_connections grows by exactly 1; the counter moves at
\* no other step.
C2_RejectedWithoutHandshake ==
    /\ [](\A s \in Sockets :
            sess[s].pc = "rejected"
                => /\ sess[s].out = <<>> /\ sess[s].todo = <<>> /\ sess[s].closing
                   /\ \A c \in DOMAIN active_handlers : active_handlers[c] # s)
    /\ [][ /\ (accepted' = accepted + 1
               /\ Cardinality(DOMAIN connections) = max_connections)
              => /\ rejected_connections' = rejected_connections + 1
                 /\ sess'[accepted'].pc = "rejected"
                 /\ connections' = connections
                 /\ active_handlers' = active_handlers
                 /\ total_connections' = total_connections
                 /\ next_connection_id' = next_connection_id
          /\ rejected_connections' # rejected_connections
              => /\ accepted' = accepted + 1
                 /\ Cardinality(DOMAIN connections) = max_connections ]_vars

\* a socket was refused at a full table whose sessions are still running
C2_RefusedAtFullTable ==
    \E s \in Sockets :
        /\ sess[s].pc = "rejected"
        /\ rejected_connections = 1
        /\ Cardinality(DOMAIN connections) = max_connections
        /\ \A c \in DOMAIN active_handlers : sess[active_handlers[c]].pc = "cmd_read"

\* C3: the sequence counter is reset for every command, so the k-th packet of
\* a command's response carries sequence id k (mod 256).
C3_ResponseIdsStartAtOne ==
    \A s \in Sockets :
        sess[s].ncmd > 0
            => \A k \in 1..Len(sess[s].out) : sess[s].out[k].seq = k % NextSeqMod

\* C4: a session that has seen the end of the stream or a failed write
\* attempts no further packet write, an ERR packet included.
C4_NoWriteAfterFailure == \A s \in Sockets : sess[s].late = 0

\* C5: when authentication fails the session sends exactly one ERR packet,
\* code 1045, and nothing else, and reads no command.
C5_OneErrOnAuthFailure ==
    \A s \in Sockets :
        sess[s].auth_result = "fail"
            => /\ sess[s].ncmd = 0
               /\ Len(sess[s].out) <= 1
               /\ \A k \in 1..Len(sess[s].out) :
                     sess[s].out[k].kind = "ERR" /\ sess[s].out[k].data = <<1045>>

\* C6: for a configured user whose password is not empty, authentication
\* succeeds exactly when the auth_data of the handshake response is the
\* response computed from that password.
C6_PasswordDecides ==
    \A s \in Sockets :
        LET a == sess[s].auth_info IN
        (a.parsed /\ a.username \in ConfiguredUsers /\ UsersConfig[a.username] # "")
            => (sess[s].auth_result = "pass"
                    <=> a.auth_data = ExpectedResponse(UsersConfig[a.username]))

\* C7: after COM_QUIT the session writes no packet and reads no further
\* command: a command sent after QUIT gets no answer.
C7_QuitEndsSession ==
    \A s \in Sockets :
        sess[s].quit => sess[s].out = <<>> /\ sess[s].todo = <<>> /\ sess[s].cmd.first = COM_QUIT

\* C8: one command at a time. The session is at a read only with nothing of
\* the current response left to write; it takes a command in only there, with
\* no write failed; and when it is back at the read after a PING or a query,
\* the packets written since the command are that command's whole response,
\* with consecutive sequence ids.
C8_OneCommandAtATime ==
    /\ [](\A s \in Sockets :
            LET r == sess[s]
                written == [k \in 1..Len(r.out) |->
                               Pkt(r.out[k].kind, r.out[k].data, r.out[k].msg)]
            IN /\ r.pc \in {"auth_read", "cmd_read"} => r.todo = <<>>
               /\ \A k \in 1..(Len(r.out) - 1) :
                     r.out[k + 1].seq = (r.out[k].seq + 1) % NextSeqMod
               /\ (r.pc = "cmd_read" /\ r.ncmd > 0 /\ r.cmd.utf8)
                   => /\ r.cmd.first = COM_PING => written = << OkPkt(0) >>
                      /\ r.cmd.first = COM_QUERY => written = send_simple_result(r.cmd.body))
    /\ [][\A s \in Sockets :
            sess'[s].ncmd > sess[s].ncmd
                => /\ sess'[s].ncmd = sess[s].ncmd + 1
                   /\ sess[s].pc = "cmd_read"
                   /\ sess[s].todo = <<>>
                   /\ ~sess[s].broken]_vars

\* the second command's response, eight packets, is out and the session is
\* back at its read
C8_SecondResponseComplete ==
    \E s \in Sockets :
        /\ sess[s].ncmd = 2 /\ sess[s].pc = "cmd_read"
        /\ sess[s].cmd.first = COM_QUERY
        /\ Len(sess[s].out) = Len(VariablesResult)

\* C9: every result set goes out as the column count, the column
\* definitions, an EOF, the rows, an EOF, in that order: what is written of a
\* SELECT or a SHOW DATABASES / TABLES / VARIABLES is at every moment a prefix
\* of that sequence, and the whole of it when the session reads again.
C9_ResultSetOrder ==
    \A s \in Sockets :
        LET r == sess[s]
            n == Len(r.out)
            q == UpperAll(r.cmd.body)
            isResultSet ==
                \/ StartsWith(q, "SELECT")
                \/ /\ StartsWith(q, "SHOW")
                   /\ \E w \in {"DATABASES", "TABLES", "VARIABLES", "VERSION"} : Contains(q, w)
        IN (r.ncmd > 0 /\ r.cmd.first = COM_QUERY /\ r.cmd.utf8 /\ isResultSet
                /\ r.ctx \in {"query", "cmd"} /\ n > 0)
           => \E c \in 1..n :
                /\ r.out[1].kind = "COUNT"
                /\ \A k \in 2..n :
                      r.out[k].kind =
                          IF k <= 1 + c THEN "COLDEF"
                          ELSE IF k = 2 + c THEN "EOF"
                          ELSE IF k < n THEN "ROW"
                          ELSE r.out[n].kind
                /\ n > 2 + c => r.out[n].kind \in {"ROW", "EOF"}
                /\ (n > 2 + c /\ r.out[n].kind = "EOF") => r.todo = <<>>
                /\ r.pc = "cmd_read" => n > 2 + c /\ r.out[n].kind = "EOF"

\* a SHOW DATABASES result set is out whole: count, one column, EOF, three
\* rows, EOF
C9_DatabasesWritten ==
    \E s \in Sockets :
        /\ sess[s].pc = "cmd_read" /\ sess[s].cmd.first = COM_QUERY
        /\ UpperAll(sess[s].cmd.body) = <<"SHOW", "DATABASES">>
        /\ Len(sess[s].out) = 7
        /\ sess[s].out[3].kind = "EOF" /\ sess[s].out[7].kind = "EOF"

\* C10: once a session has ended (its handler reached its finally block,
\* whatever took it there, or the reaper closed its writer) its connection id
\* eventually is in neither connections nor the handler map; and a socket
\* that arrives while connections holds fewer than max_connections entries is
\* admitted.
C10_EndedIsRemovedAndSlotReused ==
    /\ \A s \in 1..TurnoverSockets :
          (sess[s].cid # 0 /\ (sess[s].pc = "close" \/ sess[s].closing))
              ~> (/\ sess[s].cid \notin DOMAIN connections
                  /\ sess[s].cid \notin DOMAIN active_handlers)
    /\ [][(accepted' = accepted + 1
              /\ Cardinality(DOMAIN connections) < max_connections)
            => /\ next_connection_id \in DOMAIN connections'
               /\ active_handlers'[next_connection_id] = accepted'
               /\ sess'[accepted'].cid = next_connection_id
               /\ sess'[accepted'].pc = "send"
               /\ total_connections' = total_connections + 1
               /\ rejected_connections' = rejected_connections]_vars

\* with room for one connection: the first client was served and is gone from
\* both maps, a client that came meanwhile was refused, a later one is in
C10_SlotReused ==
    \E s, t \in Sockets :
        /\ sess[s].pc = "done" /\ sess[s].cid # 0
        /\ sess[s].cid \notin DOMAIN connections
        /\ sess[s].cid \notin DOMAIN active_handlers
        /\ rejected_connections = 1
        /\ sess[t].cid > sess[s].cid
        /\ sess[t].cid \in DOMAIN connections
        /\ Cardinality(DOMAIN connections) = max_connections

\* C11: when a reaper pass ends, none of the ids it collected as idle is left
\* in connections or in the handler map; here for the ids the pass was at or
\* had not come to when it ended.
C11_PassClosesAllCollected ==
    reaper.pc = "sleep"
        => \A k \in 1..Len(reaper.rest) :
              /\ reaper.rest[k] \notin DOMAIN connections
              /\ reaper.rest[k] \notin DOMAIN active_handlers

C13_SameIdsInBothMaps == DOMAIN connections = DOMAIN active_handlers

\* C14: connection ids start at 1 and grow: next_connection_id never
\* decreases, an admission hands out the counter's value and moves the counter
\* past it, every id handed out is at least 1 and below the counter, and no
\* two sockets, live or gone, hold the same id.
C14_IdsIncreaseAndAreUnique ==
    /\ [][next_connection_id' >= next_connection_id]_vars
    /\ [][total_connections' # total_connections
            => /\ sess'[accepted'].cid = next_connection_id
               /\ next_connection_id \in DOMAIN connections'
               /\ next_connection_id' = next_connection_id + 1]_vars
    /\ [](\A s \in Sockets :
            sess[s].cid # 0
                => /\ 1 <= sess[s].cid /\ sess[s].cid < next_connection_id
                   /\ \A t \in Sockets :
                         (t > s /\ sess[t].cid # 0) => sess[t].cid > sess[s].cid)
    /\ [](\A c \in DOMAIN connections \cup DOMAIN active_handlers :
            1 <= c /\ c < next_connection_id)
    /\ [](total_connections = 0 => next_connection_id = 1)

\* id 1 was freed by a session that is gone, and the client admitted into
\* its place holds id 2
C14_FreedIdNotReused ==
    \E s, t \in Sockets :
        /\ sess[s].pc = "done" /\ sess[s].cid = 1
        /\ 1 \notin DOMAIN connections \cup DOMAIN active_handlers
        /\ sess[t].cid = 2 /\ 2 \in DOMAIN connections
        /\ next_connection_id = 3

\* C15: N consecutive PINGs on an authenticated session give N OK packets,
\* one per PING, each with affected_rows 0 and status 2: whenever the session
\* is back at its read after its N-th PING it has written N packets since the
\* authentication reply, the last of them that OK; and nothing done for a
\* PING changes the session's user, database or authenticated flag.
C15_PingGivesOneOk ==
    /\ [](\A s \in Sockets :
            LET r == sess[s] IN
            (r.ncmd > 0 /\ r.pc = "cmd_read")
                => /\ r.seq = 2 + r.ncmd
                   /\ Len(r.out) = 1
                   /\ r.out[1].kind = "OK" /\ r.out[1].data = <<0, 2>>
                   /\ r.out[1].seq = 1 + r.ncmd
                   /\ r.authenticated
                   /\ r.username = r.auth_info.username
                   /\ r.database = r.auth_info.database)
    /\ [][\A s \in Sockets :
            (sess[s].authenticated /\ sess'[s].pc # "done")
                => /\ sess'[s].authenticated
                   /\ sess'[s].username = sess[s].username
                   /\ sess'[s].database = sess[s].database]_vars

\* the last of the run's PINGs is answered and the session reads again
C15_AllPingsAnswered ==
    \E s \in Sockets :
        /\ sess[s].ncmd = PingCmds /\ sess[s].pc = "cmd_read"
        /\ sess[s].cmd.first = COM_PING
        /\ sess[s].seq = 2 + PingCmds
        /\ sess[s].database = "hchdb"

\* C16: a command packet announced with an empty payload is answered with
\* exactly one ERR 1064, a command byte b the dispatcher does not know with
\* exactly one ERR 1047 (HY000, "Unknown command", b), and in both cases the
\* session is back at its read.
C16_EmptyAndUnknownCommands ==
    \A s \in Sockets :
        LET r == sess[s] IN
        (r.ncmd > 0 /\ ~r.quit /\ r.pc = "cmd_read")
            => /\ r.hdr = 0
                   => /\ Len(r.out) = 1
                      /\ r.out[1].kind = "ERR" /\ r.out[1].data = <<1064>>
               /\ (r.hdr > 0 /\ r.cmd.first \in UnknownCommands)
                   => /\ Len(r.out) = 1
                      /\ r.out[1].kind = "ERR"
                      /\ r.out[1].data = <<1047, r.cmd.first>>
                      /\ r.out[1].msg = <<"HY000", "Unknown command">>

\* C17: a command whose processing raises on a working socket is answered
\* with exactly one ERR packet, code 1064 with the failure's message for a
\* QUERY and code 1105 for any other command, and the session goes back to
\* its read once that packet is written.
C17_OneErrPerFailedCommand ==
    /\ [](\A s \in Sockets :
            LET r == sess[s] IN
            (r.ncmd > 0 /\ ~r.cmd.utf8 /\ r.pc = "cmd_read")
                => /\ Len(r.out) = 1
                   /\ r.out[1].kind = "ERR"
                   /\ r.cmd.first = COM_QUERY
                       => /\ r.out[1].data = <<1064>>
                          /\ r.out[1].msg = <<"HY000", "Query error">>
                   /\ r.cmd.first # COM_QUERY => r.out[1].data = <<1105>>)
    /\ [][\A s \in Sockets :
            (~sess[s].cmd.utf8 /\ sess[s].pc = "send"
                /\ Len(sess'[s].out) = Len(sess[s].out) + 1)
                => sess'[s].pc = "cmd_read" /\ sess'[s].todo = <<>>]_vars

\* a QUERY whose text is not UTF-8 was answered with its ERR 1064 and the
\* session reads again, with a command still to come
C17_QueryFailureAnswered ==
    \E s \in Sockets :
        /\ sess[s].ncmd = 1 /\ sess[s].pc = "cmd_read"
        /\ sess[s].cmd.first = COM_QUERY /\ ~sess[s].cmd.utf8
        /\ Len(sess[s].out) = 1 /\ sess[s].out[1].data = <<1064>>
        /\ ~sess[s].broken /\ ~sess[s].closing

\* C18: an INIT_DB with a database name makes that name the session's
\* database and is answered with exactly one OK; an INIT_DB announced with no
\* body (a payload of the command byte alone) or with a body that does not
\* decode is answered with exactly one ERR and leaves the database as the
\* handshake response set it.
C18_InitDbSetsDatabase ==
    \A s \in Sockets :
        LET r == sess[s] IN
        (r.ncmd = 1 /\ r.cmd.first = COM_INIT_DB /\ r.pc = "cmd_read")
            => /\ Len(r.out) = 1
               /\ (r.hdr > 1 /\ r.cmd.utf8)
                   => r.out[1].kind = "OK" /\ r.database = r.cmd.body[1]
               /\ (r.hdr <= 1 \/ ~r.cmd.utf8)
                   => r.out[1].kind = "ERR" /\ r.database = r.auth_info.database

\* C19: with no query handler, an answered QUERY got one whole result set or
\* exactly one OK: an OK with affected_rows 1 for INSERT, UPDATE and DELETE,
\* an OK with affected_rows 0 for every statement that is no SELECT, no such
\* statement and no SHOW of DATABASES, TABLES, VARIABLES or VERSION.
C19_FallbackAnswers ==
    \A s \in Sockets :
        LET r == sess[s]
            n == Len(r.out)
            q == UpperAll(r.cmd.body)
            dml == \E w \in {"INSERT", "UPDATE", "DELETE"} : StartsWith(q, w)
            listed ==
                \/ StartsWith(q, "SELECT")
                \/ dml
                \/ /\ StartsWith(q, "SHOW")
                   /\ \E w \in {"DATABASES", "TABLES", "VARIABLES", "VERSION"} : Contains(q, w)
        IN (r.ncmd > 0 /\ r.cmd.first = COM_QUERY /\ r.cmd.utf8 /\ r.pc = "cmd_read")
           => /\ \/ n = 1 /\ r.out[1].kind = "OK"
                 \/ n >= 4 /\ r.out[1].kind = "COUNT" /\ r.out[n].kind = "EOF"
              /\ dml => n = 1 /\ r.out[1].data = <<1, 2>>
              /\ ~listed => n = 1 /\ r.out[1].kind = "OK" /\ r.out[1].data = <<0, 2>>

\* C20: the ConnectionInfo of a connection has empty username and database
\* until its session has authenticated, and from then on the username and
\* database of the accepted handshake response.
C20_ConnectionInfoFollowsAuth ==
    \A s \in Sockets :
        LET r == sess[s] IN
        r.cid \in DOMAIN connections
            => /\ ~r.authenticated
                   => /\ connections[r.cid].username = ""
                      /\ connections[r.cid].database = ""
               /\ r.authenticated
                   => /\ connections[r.cid].username = r.auth_info.username
                      /\ connections[r.cid].database = r.auth_info.database

\* C21: every build operation of a PacketBuilder claims the counter's value
\* as the packet's sequence id and moves the counter on by one modulo 256:
\* consecutive packets carry consecutive ids, every id is in 0..255 and packs
\* into the header byte, and the packet after id 255 carries id 0.
C21_CounterAdvancesMod256 ==
    /\ [](codec.pc = "builder"
            => /\ codec.sequence_id \in 0..255
               /\ codec.packet.kind # "none"
                   => /\ codec.packet.sequence_id \in 0..255
                      /\ codec.packed
                      /\ codec.sequence_id = (codec.packet.sequence_id + 1) % 256)
    /\ [][codec.pc = "builder"
            => /\ codec'.packet.sequence_id = codec.sequence_id
               /\ codec'.sequence_id =
                      IF codec.sequence_id = 255 THEN 0 ELSE codec.sequence_id + 1
               /\ codec.packet.kind # "none"
                   => codec'.packet.sequence_id =
                          IF codec.packet.sequence_id = 255 THEN 0
                          ELSE codec.packet.sequence_id + 1]_vars

\* the builder has wrapped: the packet after the one with id 255 carries id 0
C21_WrappedToZero ==
    /\ codec.pc = "builder"
    /\ codec.prev = 255 /\ codec.packet.sequence_id = 0
    /\ codec.sequence_id = 1 /\ codec.packed

\* C22: a packet whose payload has at most 0xFFFFFF bytes is turned into
\* bytes, the header being the three little-endian length bytes and the
\* sequence byte, and from_bytes of those bytes gives the payload and the
\* sequence id back; a payload of 16777216 bytes or more is refused by
\* to_bytes; bytes shorter than the header or than the announced length are
\* refused by from_bytes.
C22_FrameRoundTrip ==
    LET p == codec.packet IN
    /\ codec.pc \in {"bytes", "received"}
        => /\ p.payload.len <= 16777215
           /\ codec.pc = "bytes"
               => /\ codec.data.header =
                        << p.payload.len % 256, (p.payload.len \div 256) % 256,
                           p.payload.len \div 65536, p.sequence_id >>
                  /\ codec.data.body = p.payload
    /\ codec.pc = "rejected" => p.payload.len >= 16777216
    /\ (codec.pc = "received" /\ codec.parsed.done)
        => IF codec.cut = "all"
           THEN /\ codec.parsed.ok
                /\ codec.parsed.payload = p.payload
                /\ codec.parsed.sequence_id = p.sequence_id
           ELSE ~codec.parsed.ok

\* the largest payload, 16777215 bytes, with sequence id 255 came back whole
C22_LargestCameBack ==
    /\ codec.pc = "received" /\ codec.cut = "all" /\ codec.parsed.done
    /\ codec.packet.payload.len = 16777215 /\ codec.packet.sequence_id = 255
    /\ codec.data.header = <<255, 255, 255, 255>>
    /\ codec.parsed.ok /\ codec.parsed.payload = Bytes(16777215, 255)

\* C23: decoding what the encoder wrote for a value gives the value back, for
\* values up to 2^64 - 1; the encoder writes one byte for a value below 251,
\* the tag 0xFC and two bytes below 65536, the tag 0xFD and three bytes below
\* 16777216, the tag 0xFE and eight bytes otherwise; decoding a stream whose
\* first byte is 0xFF fails.
C23_LengthEncodedRoundTrip ==
    LET v == codec.value
        high == \E i \in 4..8 : v[i] # 0
        n == v[1] + 256 * v[2] + 65536 * v[3]
        form == IF high THEN << 254, 9 >>
                ELSE IF n < 251 THEN << n, 1 >>
                ELSE IF n < 65536 THEN << 252, 3 >>
                ELSE << 253, 4 >>
    IN /\ codec.pc = "encoded"
           => /\ codec.stream[1] = form[1] /\ Len(codec.stream) = form[2]
              /\ codec.decoded.done
                  => codec.decoded.ok /\ codec.decoded.value = v
       /\ (codec.pc = "raw" /\ codec.decoded.done /\ codec.stream[1] = 255)
           => ~codec.decoded.ok

\* 16777216, the first value of the nine-byte form, came back from its bytes
C23_FirstNineByteValue ==
    /\ codec.pc = "encoded" /\ codec.decoded.done
    /\ codec.value = << 0, 0, 0, 1, 0, 0, 0, 0 >>
    /\ codec.stream = << 254, 0, 0, 0, 1, 0, 0, 0, 0 >>
    /\ codec.decoded.value = codec.value

\* C24: a --host, --port or --debug given on the command line is the value
\* of the configuration the manager and the listeners are started with.
C24_CommandLineOverridesInEffect ==
    app.pc = "started"
        => /\ app.args.host # "" => app.listening.host = app.args.host
           /\ app.args.port # 0 => app.listening.port = app.args.port
           /\ app.args.debug => app.debug_mode

\* C25: a connection whose session received a command no longer than
\* idle_timeout ago is not selected by the reaper: no step other than the
\* session's own cleanup takes a connection out of connections unless the
\* time of that step is more than idle_timeout after the session's last
\* command.
C25_ActiveConnectionNotReaped ==
    [][\A s \in Sockets :
          LET c == sess[s].cid IN
          (/\ c \in DOMAIN connections /\ c \notin DOMAIN connections'
           /\ sess[s].pc # "cleanup" /\ sess[s].heard >= 0)
              => clock' - sess[s].heard > IdleTimeout]_vars

\* C26: in the connection phase the handshake goes out with sequence id 0,
\* the client's response counts as id 1, and the reply to it (OK, or ERR 1045)
\* goes out with sequence id 2.
C26_AuthReplyHasSequenceTwo ==
    \A s \in Sockets :
        LET r == sess[s] IN
        /\ (r.pc = "auth_read" /\ Len(r.out) >= 1) => r.out[1].seq = 0
        /\ (r.auth_result # "none" /\ r.ncmd = 0 /\ Len(r.out) >= 1)
            => /\ r.out[1].kind \in {"OK", "ERR"}
               /\ r.out[1].seq = 2

\* C27: the session's frame reader takes the three little-endian bytes of
\* the header, zero-extended, as the payload length (so at most 0xFFFFFF) and
\* the fourth as the sequence id, and reads exactly that many payload bytes:
\* of a packet's bytes it returns the packet with its payload, with the length
\* and sequence id Packet.from_bytes finds, and of bytes that end inside the
\* header or the payload it returns no packet.
C27_ReaderComputes24BitLength ==
    (codec.pc = "received" /\ codec.read.done)
        => /\ Len(codec.data.header) = 4
               => /\ codec.read.length =
                        Pad(SubSeq(codec.data.header, 1, 3), Len(codec.read.length))
                  /\ codec.read.sequence_id = codec.data.header[4]
                  /\ codec.parsed.done
                      => /\ codec.read.length =
                               Pad(pack_I(codec.parsed.length), Len(codec.read.length))
                         /\ codec.read.sequence_id = codec.parsed.sequence_id
           /\ codec.cut = "all"
               => codec.read.packet /\ codec.read.payload = codec.packet.payload
           /\ codec.cut # "all" => ~codec.read.packet

\* C28: a handshake response that ends inside a null-terminated field (user
\* name, auth data, database, plugin name) is not parsed: the session takes
\* no auth_info from it, does not authenticate the client, reads no command
\* and goes on to close the connection.
C28_TruncatedResponseRejected ==
    \A s \in Sockets :
        LET r == sess[s] IN
        EndsInsideField(r.resp)
            => /\ ~r.auth_info.parsed
               /\ r.auth_result = "none"
               /\ ~r.authenticated
               /\ r.pc # "cmd_read" /\ r.ncmd = 0

\* C29: the first packet written to an admitted connection is a Handshake
\* v10 with sequence id 0, the connection id the manager gave that connection
\* (the id its handler is registered under; 1 for the first admission), the
\* server version and the plugin name mysql_native_password; the session
\* waits for the client's response with that one packet written.
C29_FirstPacketIsHandshake ==
    /\ \A s \in Sockets :
          LET r == sess[s] IN
          (r.cid # 0 /\ r.auth_result = "none" /\ r.ncmd = 0)
              => /\ Len(r.out) >= 1
                     => r.out[1] = [kind |-> "HANDSHAKE", data |-> <<10, r.cid>>,
                                    msg |-> <<"8.0.0-hchdb", "mysql_native_password">>,
                                    seq |-> 0]
                 /\ r.pc = "auth_read" => Len(r.out) = 1
                 /\ r.cid \in DOMAIN active_handlers => active_handlers[r.cid] = s
    /\ total_connections >= 1 => \E s \in Sockets : sess[s].cid = 1

\* two admitted clients have their handshakes, with connection ids 1 and 2
C29_TwoClientsGreeted ==
    /\ Cardinality(DOMAIN active_handlers) = 2
    /\ \A c \in DOMAIN active_handlers :
          LET r == sess[active_handlers[c]] IN
          /\ r.pc = "auth_read" /\ r.cid = c
          /\ Len(r.out) = 1 /\ r.out[1].data = <<10, c>>

\* C30: in every result set the fallback responder writes, the payload of
\* the first packet, decoded as a length-encoded integer, is the number of
\* column definition packets that follow it and the number of values of every
\* row packet: 2 for SHOW VARIABLES, 1 for the other result sets.
C30_ColumnCountMatches ==
    \A s \in Sockets :
        LET r == sess[s]
            n == Len(r.out)
            columns == Cardinality({ k \in 1..n : r.out[k].kind = "COLDEF" })
        IN (/\ r.ncmd > 0 /\ r.cmd.first = COM_QUERY /\ r.cmd.utf8
            /\ r.pc = "cmd_read" /\ n >= 1 /\ r.out[1].kind = "COUNT")
           => LET count == decode_length_encoded_int(r.out[1].data) IN
              /\ count.ok /\ count.value = Pad(pack_I(columns), 8)
              /\ \A k \in 1..n : r.out[k].kind = "ROW" => r.out[k].data = << columns >>
              /\ columns = IF Contains(UpperAll(r.cmd.body), "VARIABLES") THEN 2 ELSE 1

\* C31: no client command is read or answered before the connection has
\* authenticated. A session that waits for a command, has taken one in, or is
\* writing or has written a command's response (OK, EOF, result set, ERR 1047
\* or 1064, or the ERR of a failed command) has authenticated = TRUE, a parsed
\* handshake response and an accepted user; a session whose authentication
\* failed or whose response did not parse has read no command.
C31_NoCommandBeforeAuthentication ==
    \A s \in Sockets :
        LET r == sess[s] IN
        /\ (r.pc = "cmd_read" \/ r.ncmd > 0
               \/ r.ctx \in {"cmd", "query", "queryexc", "cmdexc"})
              => r.authenticated /\ r.auth_info.parsed /\ r.auth_result = "pass"
        /\ (r.auth_result = "fail" \/ (r.pc \notin {"none", "rejected", "done"}
                                        /\ r.resp # NoPayload /\ ~r.auth_info.parsed))
              => r.ncmd = 0 /\ r.cmd = NoCmd /\ ~r.authenticated

\* an authenticated session has answered a command
C31_CommandAnsweredAfterAuth ==
    \E s \in Sockets :
        /\ sess[s].authenticated
        /\ sess[s].ncmd > 0
        /\ sess[s].pc = "cmd_read"
        /\ sess[s].out # <<>>

\* C32: a refused connection attempt (the step that counts it in
\* rejected_connections) leaves next_connection_id, total_connections, the
\* connections map and the handler map as they were, and in every state
\* total_connections = next_connection_id - 1: only admitted connections take
\* an id and are counted.
C32_RefusalChangesNothingElse ==
    /\ [](total_connections = next_connection_id - 1)
    /\ [][rejected_connections' # rejected_connections
            => /\ rejected_connections' = rejected_connections + 1
               /\ UNCHANGED <<next_connection_id, total_connections,
                              connections, active_handlers>>]_vars

\* a client was refused between two admissions
C32_AdmittedAfterRefusal ==
    /\ rejected_connections >= 1
    /\ total_connections >= 2
    /\ sess[2].pc = "rejected"

\* C33: _cleanup_connection may run twice for one connection id, the reaper's
\* invocation suspended in wait_closed while the session task's finally block
\* runs its own: neither invocation raises, and once both have ended the id
\* is in neither the connections map nor the handler map.
C33_DoubleCleanupDoesNotRaise ==
    /\ ~reaper.raised
    /\ \A s \in Sockets :
          (sess[s].pc = "done" /\ ~(reaper.pc = "wait" /\ reaper.cur = sess[s].cid))
             => /\ sess[s].cid \notin DOMAIN connections
                /\ sess[s].cid \notin DOMAIN active_handlers

\* C34: when start fails after some listeners were started, every listener
\* started so far is closed and the server's listener list is empty when start
\* raises the error again; start on a running server raises and leaves the
\* running listeners as they were, and stop on a server that is not running
\* changes nothing.
C34_FailedStartClosesListeners ==
    /\ server.result = "start_failed"
          => /\ server.servers = <<>>
             /\ server.listening = {}
             /\ ~server.running
    /\ server.result \in {"already_running", "not_running"}
          => ServerFields(server) = server.before
    /\ server.result = "already_running" => server.running /\ server.servers # <<>>

\* C35: after start with a connection factory that always succeeds, and
\* before any connection is borrowed, the pool holds min_connections idle
\* connections: active_connections = min_connections, in_use_connections = 0.
C35_StartFillsToMin ==
    (pool.starter.pc = "done" /\ pool.factory = "succeeds" /\ ~pool.lent /\ ~pool.closed)
       => /\ get_pool_stats(pool).active_connections = pool.min
          /\ get_pool_stats(pool).in_use_connections = 0

\* the borrowers that hold a connection, returning it or not yet
Holders == { b \in Borrowers : pool.b[b].pc \in {"holding", "return_wait"} }

\* C36: a pooled connection is never lent to two borrowers at the same time.
\* No two borrowers hold the same connection, and a held connection of the
\* pool is marked in use; get_connection hands out only a connection that was
\* not in use or was not in the pool before, and marks it in use; a return of
\* a connection that is not in use changes nothing of the pool.
C36_NeverLentTwice ==
    /\ [](\A b1, b2 \in Holders : b1 # b2 => pool.b[b1].conn # pool.b[b2].conn)
    /\ [](\A b \in Holders :
            LET k == IndexOf(pool.conns, pool.b[b].conn) IN
            k # 0 => pool.conns[k].in_use)
    /\ [][\A b \in Borrowers :
            /\ (pool'.b[b].pc = "holding" /\ pool.b[b].pc # "holding")
                  => LET c == pool'.b[b].conn
                         k == IndexOf(pool.conns, c)
                         k1 == IndexOf(pool'.conns, c)
                     IN /\ k # 0 => ~pool.conns[k].in_use /\ ~pool.conns[k].expired
                        /\ k1 # 0 /\ pool'.conns[k1].in_use
            /\ (pool'.b[b].res = "noop" /\ pool.b[b].res # "noop")
                  => pool' = [pool EXCEPT !.b[b].res = "noop"]]_vars

\* both borrowers hold a connection at once, one of them a connection older
\* than the last one created, after a maintenance pass
C36_BothBorrowersHold ==
    /\ Holders = Borrowers
    /\ pool.maintained
    /\ \E b \in Borrowers : pool.b[b].conn < pool.created - 1

\* C37: with min_connections <= max_connections the pool never holds more
\* than max_connections connections, whatever the interleaving of
\* get_connection calls, returns and maintenance passes.
C37_AtMostMaxConnections ==
    pool.min <= pool.max => Len(pool.conns) <= pool.max

\* the pool is full, a borrower holds one of its connections and another
\* sleeps for a free one
C37_FullPoolAndSleeper ==
    /\ Len(pool.conns) = pool.max
    /\ \E b1, b2 \in Borrowers :
          /\ pool.b[b1].pc = "holding"
          /\ pool.b[b2].pc = "sleeping"

\* C38: once stop has completed the pool is empty and stays empty; a
\* get_connection that is pending then or issued later ends with a connection
\* error and hands out no connection; a stop on a closed pool changes nothing.
C38_StoppedPoolStaysEmpty ==
    /\ [](pool.stopper = "done" => pool.closed /\ pool.conns = <<>>)
    /\ [][pool.stopper = "done"
            => \A b \in Borrowers :
                  /\ pool'.b[b].pc = "holding" => pool.b[b].pc = "holding"
                  /\ pool'.b[b].pc \notin {"creating", "lock_wait"}
                        \/ pool'.b[b].pc = pool.b[b].pc
                  /\ (pool.b[b].pc \in {"idle", "lock_wait", "creating", "sleeping"}
                        /\ pool'.b[b] # pool.b[b] /\ pool'.b[b].res # "noop")
                        => pool'.b[b].pc = "idle" /\ pool'.b[b].res = "error"]_vars
    /\ [][(pool.closed /\ pool'.stop_calls # pool.stop_calls)
            => pool' = [pool EXCEPT !.stop_calls = @ + 1, !.stop_noop = TRUE]]_vars

\* stop has completed while a borrower slept for a free connection, and a
\* second stop has returned
C38_SleeperAfterStop ==
    /\ pool.stopper = "done"
    /\ pool.stop_noop
    /\ \E b \in Borrowers : pool.b[b].pc = "sleeping"

====
